---- MODULE Spec2Model ----
(***************************************************************************)
(* Model of the dependency-injection core of tabris-decorators: the        *)
(* Injector (handler registry keyed by prototype, resolve, create).        *)
(* JavaScript is single threaded and the modelled operations are           *)
(* synchronous, so every public method is one atomic action.               *)
(***************************************************************************)
EXTENDS Integers, Sequences, FiniteSets, TLC

VARIABLES handlers, regLog, last, usedSinceReset, entries, answered,
          heap, sharedInstance, propCache, declared,
          propertyStore, triggered,
          picker, subscriptions, trace

vars == <<handlers, regLog, last, usedSinceReset, entries, answered,
          heap, sharedInstance, propCache, declared,
          propertyStore, triggered,
          picker, subscriptions, trace>>

(***************************************************************************)
(* Bounds of the model.                                                    *)
(***************************************************************************)
\* number of addHandler calls since the last reset
MaxReg == 3
\* length of the explicit argument list given to create
MaxArgs == 2

\* objects constructed by the default handlers of injectable classes
MaxObjects == 3

\* events a widget triggers
MaxEvents == 3

\* items of the list an ItemPicker shows
MaxItems == 2


(***************************************************************************)
(* Types.  A type is identified by its name; the prototype of a type is    *)
(* identified with the type, so "Object" stands for Object.prototype.      *)
(***************************************************************************)
NoType == "undefined"

ClassTypes == {"Object", "Base", "Derived"}

PrimitiveTypes == {"Number", "String", "Boolean"}

Types == ClassTypes \cup PrimitiveTypes

\* Object.getPrototypeOf(T.prototype): class Derived extends Base, every
\* other prototype inherits from Object.prototype directly.
getPrototypeOf(proto) ==
  IF proto = "Derived" THEN "Base" ELSE "Object"

(***************************************************************************)
(* Values.  kind distinguishes null, undefined, primitives, the boxed      *)
(* wrappers (new Number(0)), and ordinary objects.                         *)
(***************************************************************************)
Null == [kind |-> "null", type |-> "null", val |-> "null"]

Undefined == [kind |-> "undefined", type |-> "undefined", val |-> "undefined"]

Prim(t, v) == [kind |-> "prim", type |-> t, val |-> v]

Boxed(t, v) == [kind |-> "boxed", type |-> t, val |-> v]

Obj(t, v) == [kind |-> "object", type |-> t, val |-> v]

\* JavaScript truthiness: wrappers and objects are truthy, the primitives
\* 0, "" and false are not.
Truthy(v) ==
  /\ v.kind \notin {"null", "undefined"}
  /\ ~(v.kind = "prim" /\ v.val \in {"0", "''", "false"})

\* box.valueOf(): a wrapper yields its primitive, a primitive yields itself,
\* Object.prototype.valueOf yields the object.
valueOf(box) ==
  IF box.kind = "boxed" THEN Prim(box.type, box.val) ELSE box

(***************************************************************************)
(* Injectors and injection requests.                                       *)
(***************************************************************************)
This == "injector"

OtherInjector == "injector2"

NoIndex == -1

\* resolve called without an injection argument
NoInjection ==
  [present |-> FALSE, type |-> NoType, index |-> NoIndex, param |-> "undefined",
   instance |-> "undefined", name |-> "undefined", injector |-> "undefined"]

\* {injector: this}
DefaultInjection ==
  [present |-> TRUE, type |-> NoType, index |-> NoIndex, param |-> "undefined",
   instance |-> "undefined", name |-> "undefined", injector |-> This]

\* the request of a property injection site
PropertyInjection(inj) ==
  [present |-> TRUE, type |-> NoType, index |-> NoIndex, param |-> "undefined",
   instance |-> "instance", name |-> "injectedClass", injector |-> inj]

\* variant: the position is counted from 1
ParamInjection_fromOne(type, i, param, inj) ==
  [present |-> TRUE, type |-> type, index |-> i + 1, param |-> param,
   instance |-> "undefined", name |-> "undefined", injector |-> inj]

\* the request create builds for parameter i (0-based) of type
ParamInjection(type, i, param, inj) ==
  [present |-> TRUE, type |-> type, index |-> i, param |-> param,
   instance |-> "undefined", name |-> "undefined", injector |-> inj]

(***************************************************************************)
(* Handlers.  A handler is a function of the program under test; the model *)
(* fixes what each one returns.                                            *)
(***************************************************************************)
\* the injectable classes: Base plays MySingletonClass and Derived
\* MyInjectableClass of the tests in the specification of injected properties
InjectableTypes == {"Base", "Derived"}

\* the DefaultInjectionHandler objects, by the class they construct and
\* their config
SharedHandlerOf(type) == IF type = "Base" THEN "sharedBase" ELSE "sharedDerived"

FreshHandlerOf(type) == IF type = "Base" THEN "defaultBase" ELSE "defaultDerived"

DefaultHandlers ==
  {SharedHandlerOf(type) : type \in InjectableTypes}
    \cup {FreshHandlerOf(type) : type \in InjectableTypes}

\* DefaultInjectionHandler.type
HandlerType(h) == IF h \in {"sharedBase", "defaultBase"} THEN "Base" ELSE "Derived"

\* DefaultInjectionHandler.config.shared
HandlerShared(h) == h \in {SharedHandlerOf(type) : type \in InjectableTypes}

\* variant: every default handler is made a shared one
NewDefaultInjectionHandler_shared(type, config) == SharedHandlerOf(type)

\* variant: the config is not handed to the handler
NewDefaultInjectionHandler_notShared(type, config) == FreshHandlerOf(type)

\* new DefaultInjectionHandler(type, config)
NewDefaultInjectionHandler(type, config) ==
  IF config.shared THEN SharedHandlerOf(type) ELSE FreshHandlerOf(type)

HandlerIds ==
  {"hNull", "hUndef", "hThrow", "hObj", "hDerived", "hZero", "hBoxZero",
   "hEmpty", "hBoxEmpty", "hFalse", "hBoxFalse", "hBox23"} \cup DefaultHandlers

HandlerThrows(h) == h = "hThrow"

HandlerValue(h) ==
  CASE h = "hNull" -> Null
    [] h = "hUndef" -> Undefined
    [] h = "hObj" -> Obj("Base", "service")
    [] h = "hDerived" -> Obj("Derived", "derived")
    [] h = "hZero" -> Prim("Number", "0")
    [] h = "hBoxZero" -> Boxed("Number", "0")
    [] h = "hEmpty" -> Prim("String", "''")
    [] h = "hBoxEmpty" -> Boxed("String", "''")
    [] h = "hFalse" -> Prim("Boolean", "false")
    [] h = "hBoxFalse" -> Boxed("Boolean", "false")
    [] h = "hBox23" -> Boxed("Number", "23")
    [] h \in DefaultHandlers -> Obj(HandlerType(h), "instance")
    [] OTHER -> Undefined

\* message of the error a throwing handler throws
HandlerError(h) == <<"handler failed", h>>

(***************************************************************************)
(* Error messages, as the sequence of their parts.                         *)
(***************************************************************************)
NoError == <<>>

CrossInjectorError == <<"@inject belongs to a different injector">>

NoHandlerError(type) ==
  <<"Could not inject value of type", type,
    "since no compatible injection handler exists for this type.">>

\* variant: the message of the empty chain is used for the exhausted chain
ExhaustedError_asNoHandler(type) == NoHandlerError(type)

ExhaustedError(type) ==
  <<"Could not inject value of type", type,
    "since no compatible injection handler returned a value.">>

NoTypeError(type) ==
  <<"Could not inject value since type is", type,
    "Do you have circular module dependencies?">>

(***************************************************************************)
(* Injector.forEachPrototype: the prototypes visited, in order.            *)
(***************************************************************************)
RECURSIVE PrototypeWalk(_)
PrototypeWalk(currentProto) ==
  IF currentProto = "Object"
    THEN <<>>
    ELSE <<currentProto>> \o PrototypeWalk(getPrototypeOf(currentProto))

\* variant: only the prototype of the type itself is visited
forEachPrototype_own(type) == IF type = "Object" THEN <<>> ELSE <<type>>

\* variant: the walk does not stop before Object.prototype
forEachPrototype_withRoot(type) ==
  IF type = "Object" THEN <<"Object">> ELSE PrototypeWalk(type) \o <<"Object">>

forEachPrototype(type) == PrototypeWalk(type)

(***************************************************************************)
(* Injector.addHandler.                                                    *)
(***************************************************************************)
\* targetTypeHandlers.unshift(handlerObject)
\* variant: push instead of unshift
unshift_push(targetTypeHandlers, handler) == Append(targetTypeHandlers, handler)

unshift(targetTypeHandlers, handler) == <<handler>> \o targetTypeHandlers

\* the callback of addHandler applied to each prototype of the walk
RECURSIVE addHandlerEach(_, _, _)
addHandlerEach(map, protos, handler) ==
  IF protos = <<>>
    THEN map
    ELSE addHandlerEach(
           [map EXCEPT ![Head(protos)] = unshift(map[Head(protos)], handler)],
           Tail(protos), handler)

addHandler(map, targetType, handler) ==
  addHandlerEach(map, forEachPrototype(targetType), handler)

(***************************************************************************)
(* Injector.resolve.                                                       *)
(***************************************************************************)
\* variant: the lookup also takes the handlers of the parent prototype
findCompatibleHandlers_inherited(map, type) ==
  map[type] \o (IF type = "Object" THEN <<>> ELSE map[getPrototypeOf(type)])

findCompatibleHandlers(map, type) == map[type]

passValue(value) == value

unboxValue(box) ==
  IF box # Null /\ box # Undefined THEN valueOf(box) ELSE box

\* variant: Boolean is missing from the comparison
getUnboxer_noBoolean(type) ==
  IF type = "Number" \/ type = "String" THEN "unboxValue" ELSE "passValue"

getUnboxer(type) ==
  IF type = "Number" \/ type = "String" \/ type = "Boolean"
    THEN "unboxValue"
    ELSE "passValue"

unbox(type, value) ==
  IF getUnboxer(type) = "unboxValue" THEN unboxValue(value) ELSE passValue(value)

\* variant: if (result)
IsDefined_truthy(result) == Truthy(result)

\* result !== null && result !== undefined
IsDefined(result) == result # Null /\ result # Undefined

\* what a call returns or throws; cause is the error first thrown
Returned(value, calls) ==
  [out |-> "value", value |-> value, err |-> NoError, cause |-> NoError,
   calls |-> calls, finalArgs |-> <<>>]

Thrown(err, calls) ==
  [out |-> "error", value |-> Undefined, err |-> err, cause |-> err,
   calls |-> calls, finalArgs |-> <<>>]

\* variant: the injector of the request is not looked at
ForeignInjection_never(injection) == FALSE

\* injection.injector !== this
ForeignInjection(injection) ==
  injection.present /\ injection.injector # This

\* variant: a handler that throws is skipped like one that returns nothing
RECURSIVE resolveLoop_skipThrowing(_, _, _, _, _)
resolveLoop_skipThrowing(chain, i, type, injection, calls) ==
  IF i > Len(chain)
    THEN Thrown(ExhaustedError(type), calls)
    ELSE LET handler == chain[i]
             called == Append(calls,
                         [handler |-> handler, injection |-> injection,
                          injector |-> This])
             result == unbox(type, HandlerValue(handler))
         IN IF ~HandlerThrows(handler) /\ IsDefined(result)
              THEN Returned(result, called)
              ELSE resolveLoop_skipThrowing(chain, i + 1, type, injection, called)

\* the for loop of resolve, from position i of the chain
RECURSIVE resolveLoop(_, _, _, _, _)
resolveLoop(chain, i, type, injection, calls) ==
  IF i > Len(chain)
    THEN Thrown(ExhaustedError(type), calls)
    ELSE LET handler == chain[i]
             called == Append(calls,
                         [handler |-> handler, injection |-> injection,
                          injector |-> This])
         IN IF HandlerThrows(handler)
              THEN Thrown(HandlerError(handler), called)
              ELSE LET result == unbox(type, HandlerValue(handler))
                   IN IF IsDefined(result)
                        THEN Returned(result, called)
                        ELSE resolveLoop(chain, i + 1, type, injection, called)

\* The test of findCompatibleHandlers for a missing type (!type) is the
\* second branch: it throws before the map is read.
resolve(map, type, injection) ==
  IF ForeignInjection(injection)
    THEN Thrown(CrossInjectorError, <<>>)
    ELSE IF type = NoType
      THEN Thrown(NoTypeError(type), <<>>)
      ELSE LET chain == findCompatibleHandlers(map, type)
           IN IF Len(chain) = 0
                THEN Thrown(NoHandlerError(type), <<>>)
                ELSE resolveLoop(chain, 1, type,
                       IF injection.present THEN injection ELSE DefaultInjection,
                       <<>>)

(***************************************************************************)
(* Classes given to create, with what getParamInfo and Function.length     *)
(* yield for them.  Base plays MyServiceClass of the tests.                *)
(***************************************************************************)
Creatable ==
  {"ConstructorWithInjection", "ExtendedConstrutorWithInjection", "Base",
   "ThrowingClass", "ForeignClient"}

\* no @inject at this parameter: paramInfo[i] is undefined
NoParam ==
  [present |-> FALSE, type |-> NoType, injectParam |-> "undefined",
   injector |-> "undefined"]

InjectParam(t, param, inj) ==
  [present |-> TRUE, type |-> t, injectParam |-> param, injector |-> inj]

\* constructor(str, @inject('foo2') service, @inject number, @inject otherService)
getParamInfo(type) ==
  CASE type \in {"ConstructorWithInjection", "ExtendedConstrutorWithInjection"} ->
         <<NoParam, InjectParam("Base", "foo2", This),
           InjectParam("Number", "undefined", This),
           InjectParam("Base", "undefined", This)>>
    [] type = "ForeignClient" -> <<InjectParam("Base", "undefined", OtherInjector)>>
    [] OTHER -> <<>>

\* type.length: the declared arity; a class without a constructor of its own
\* has length 0
Arity(type) ==
  CASE type = "ConstructorWithInjection" -> 4
    [] type = "Base" -> 1
    [] type = "ForeignClient" -> 1
    [] OTHER -> 0

ConstructorThrows(type) == type = "ThrowingClass"

ConstructorError(type) == <<"constructor failed", type>>

NoTypeToCreateError == <<"No type to create was given">>

\* `Could not create instance of ${type.name}:\n${ex.message}`
CreateError(type, message) ==
  <<"Could not create instance of", type, ":\n">> \o message

\* variant: the first of the two numbers
Max_first(a, b) == a

Max(a, b) == IF a >= b THEN a ELSE b

\* args[i], 1-based here; reading past the end of an array yields undefined
ArgAt(args, i) == IF i <= Len(args) THEN args[i] ELSE Undefined

\* paramInfo[i]
ParamAt(paramInfo, i) == IF i <= Len(paramInfo) THEN paramInfo[i] ELSE NoParam

\* variant: an explicit argument is kept, injection fills the gaps only
finalArg_explicitWins(args, i, info, r) ==
  IF info.present /\ ArgAt(args, i) = Undefined THEN r.value ELSE ArgAt(args, i)

\* the value create passes at position i: r is the resolution of the
\* parameter, used when the parameter has injection metadata
finalArg(args, i, info, r) == IF info.present THEN r.value ELSE ArgAt(args, i)

\* new type(...finalArgs)
construct(type, finalArgs, calls) ==
  IF ConstructorThrows(type)
    THEN [Thrown(ConstructorError(type), calls) EXCEPT !.finalArgs = finalArgs]
    ELSE [Returned(Obj(type, "instance"), calls) EXCEPT !.finalArgs = finalArgs]

\* the for loop of create at position i (1-based; the index handed to the
\* handler is the 0-based i - 1), then the constructor call
RECURSIVE createLoop(_, _, _, _, _, _, _)
createLoop(map, type, args, i, paramCount, finalArgs, calls) ==
  IF i > paramCount
    THEN construct(type, finalArgs, calls)
    ELSE LET info == ParamAt(getParamInfo(type), i)
             r == IF info.present
                    THEN resolve(map, info.type,
                           ParamInjection(type, i - 1, info.injectParam, info.injector))
                    ELSE Returned(Undefined, <<>>)
         IN IF r.out = "error"
              THEN [Thrown(r.err, calls \o r.calls) EXCEPT !.finalArgs = finalArgs]
              ELSE createLoop(map, type, args, i + 1, paramCount,
                     Append(finalArgs, finalArg(args, i, info, r)),
                     calls \o r.calls)

\* variant: the error is passed on as it is
catchCreate_rethrow(type, r) == r

\* the catch clause of create
catchCreate(type, r) ==
  IF r.out = "error" THEN [r EXCEPT !.err = CreateError(type, r.err)] ELSE r

create(map, type, args) ==
  IF type = NoType
    THEN [Thrown(NoTypeToCreateError, <<>>) EXCEPT !.finalArgs = <<>>]
    ELSE LET paramCount == Max(Arity(type), Max(Len(args), Len(getParamInfo(type))))
         IN catchCreate(type, createLoop(map, type, args, 1, paramCount, <<>>, <<>>))

(***************************************************************************)
(* State.                                                                  *)
(*   handlers  the HandlersMap of the injector; an absent key is <<>>      *)
(*   regLog    history: the addHandler calls since the last reset          *)
(*   last      history: the last call made and what it returned or threw   *)
(*   usedSinceReset  history: a resolve of the injector returned a value   *)
(*             since the last reset (recorded for the teardown claims)     *)
(*   entries   the HandlersMap of the InjectionManager, in insertion order *)
(*   answered  history: the types whose InjectionManager entry has         *)
(*             returned from its handler at least once                     *)
(*   heap      the classes of the objects the default handlers have        *)
(*             constructed, in order of construction                       *)
(*   sharedInstance  the instance field of each shared default handler     *)
(*   propCache the value cached by the accessor of each injected property  *)
(*             of each instance, with the handler that produced it         *)
(*   declared  the decorators applied so far to each injectable class      *)
(*   propertyStore  what the property store of the widget holds for the    *)
(*             @property-decorated property                                *)
(*   triggered the events the widget has triggered, in order               *)
(***************************************************************************)
\* the names of the objects the default handlers construct, in order
ObjectNames == <<"object1", "object2", "object3", "object4", "object5", "object6">>

\* DefaultInjectionHandler.instance before the first injection
NoInstance == Undefined

\* the two MyClientClass instances of the tests
Clients == {"instance", "instance2"}

\* everything that owns injected properties: the clients and the objects
\* constructed for them
Owners == Clients \cup {ObjectNames[i] : i \in 1..MaxObjects}

\* @inject autoInjectableClass: MyInjectableClass; @inject singleton:
\* MySingletonClass
Props == {"autoInjectableClass", "singleton"}

PropType(name) == IF name = "singleton" THEN "Base" ELSE "Derived"

\* the property has not been read on the instance
NotCached == [cached |-> FALSE, value |-> Undefined, by |-> "none"]

\* no decorator has been applied to the class
NotDeclared == [shared |-> FALSE, injectable |-> FALSE]

\* the items a list holds
PickerItems == {"item1", "item2"}

\* the list object that is assigned to items
ListIds == {"list1"}

\* items = null
NullList == [id |-> "null", items |-> <<>>]

ListContents == UNION {[1..n -> PickerItems] : n \in 0..MaxItems}

\* a list object and what it holds
Lists == {[id |-> id, items |-> c] : id \in ListIds, c \in ListContents}

\* a string as the sequence of its characters
PathText == <<"t">>

DotPathText == <<".", "t">>

HashPathText == <<"#", "t">>

EmptyText == <<>>

\* textSource = null
NoTextSource == [kind |-> "null", path |-> <<>>, converter |-> "none"]

\* textSource = '<path>'
PathString(path) == [kind |-> "string", path |-> path, converter |-> "none"]

\* binding = {path: value, converter: String}
Binding(path) == [kind |-> "binding", path |-> path, converter |-> "String"]

\* this._texts = null
NoTexts == [null |-> TRUE, texts |-> <<>>]

Texts(texts) == [null |-> FALSE, texts |-> texts]

\* this._unsubsribers = null
NoUnsubscribers == [null |-> TRUE, cancels |-> <<>>]

\* the unsubscribers of the items in the order of the items: the index of
\* the item for the one subscribe returned, 0 for () => undefined
Unsubscribers(cancels) == [null |-> FALSE, cancels |-> cancels]

\* the subscriptions made for the item at an index of the list: the item
\* subscribed to last, and how many subscribe calls have returned minus how
\* many of their unsubscribers have been called
NoSubscription == [item |-> "none", live |-> 0]

\* new ItemPicker(): textSource and items have been set to null, the first
\* _computeTexts and _refresh have run, the listeners are registered
NewItemPicker ==
  [items |-> NullList, _textSource |-> NoTextSource, _texts |-> NoTexts,
   _unsubsribers |-> NoUnsubscribers, _inRefresh |-> FALSE,
   selectionIndex |-> -1, itemCount |-> 0]

NoCall ==
  [op |-> "none", type |-> NoType, handler |-> "none", injection |-> NoInjection,
   args |-> <<>>, before |-> [t \in Types |-> <<>>],
   out |-> "none", value |-> Undefined, err |-> NoError, cause |-> NoError,
   calls |-> <<>>, finalArgs |-> <<>>]

Init ==
  /\ handlers = [t \in Types |-> <<>>]
  /\ regLog = <<>>
  /\ last = NoCall
  /\ usedSinceReset = FALSE
  /\ entries = <<>>
  /\ answered = {}
  /\ heap = <<>>
  /\ sharedInstance = [h \in DefaultHandlers |-> NoInstance]
  /\ propCache = [instance \in Owners |-> [name \in Props |-> NotCached]]
  /\ declared = [type \in InjectableTypes |-> NotDeclared]
  /\ propertyStore = Undefined
  /\ triggered = <<>>
  /\ picker = NewItemPicker
  /\ subscriptions = [index \in 1..MaxItems |-> NoSubscription]
  /\ trace = <<>>

\* the caller is between two calls
Idle == last.op = "none"

AddHandler(targetType, handler) ==
  /\ Idle
  /\ Len(regLog) < MaxReg
  /\ handlers' = addHandler(handlers, targetType, handler)
  /\ regLog' = Append(regLog, [type |-> targetType, handler |-> handler])
  /\ last' = [NoCall EXCEPT !.op = "addHandler", !.type = targetType,
                            !.handler = handler, !.before = handlers]

\* variant: the map is left as it is
clear_nothing(map) == map

\* this.handlers.clear()
clear(map) == [t \in DOMAIN map |-> <<>>]

Reset ==
  /\ Idle
  /\ handlers' = clear(handlers)
  /\ regLog' = <<>>
  /\ last' = [NoCall EXCEPT !.op = "reset", !.before = handlers]

Resolve(type, injection) ==
  LET r == resolve(handlers, type, injection)
  IN /\ Idle
     /\ last' = [NoCall EXCEPT !.op = "resolve", !.type = type,
                               !.injection = injection, !.before = handlers,
                               !.out = r.out, !.value = r.value, !.err = r.err,
                               !.cause = r.cause, !.calls = r.calls]
     /\ UNCHANGED <<handlers, regLog>>

Create(type, args) ==
  LET r == create(handlers, type, args)
  IN /\ Idle
     /\ last' = [NoCall EXCEPT !.op = "create", !.type = type, !.args = args,
                               !.before = handlers,
                               !.out = r.out, !.value = r.value, !.err = r.err,
                               !.cause = r.cause, !.calls = r.calls,
                               !.finalArgs = r.finalArgs]
     /\ UNCHANGED <<handlers, regLog>>

\* the caller takes the outcome of its call and goes on
Return ==
  /\ ~Idle
  /\ last' = NoCall
  /\ trace' = <<>>
  /\ UNCHANGED <<handlers, regLog, usedSinceReset, entries, answered,
                 heap, sharedInstance, propCache, declared,
                 propertyStore, triggered, picker, subscriptions>>

(***************************************************************************)
(* InjectionManager: the registry with one handler per type and a used     *)
(* flag.  The Map is the sequence of its entries in insertion order.       *)
(***************************************************************************)
AlreadyHasHandlerError(type) ==
  <<"InjectionManager already has a handler for", type>>

CanNotRemoveError(type) ==
  <<"Can not remove InjectionHandler for type", type,
    "because it was already used.">>

CanNotClearError(type) ==
  <<"Can not clear InjectionManager because InjectionHandler for type", type,
    "was already used.">>

NoInjectionHandlerError(type) ==
  <<"Can not inject value of type", type,
    "since no injection handler exists for this type.">>

\* this.handlers.has(targetType)
has(map, type) == \E i \in 1..Len(map) : map[i].type = type

\* this.handlers.get(targetType), for a type the map has
get(map, type) == map[CHOOSE i \in 1..Len(map) : map[i].type = type]

\* this.handlers.delete(targetType)
RECURSIVE delete(_, _)
delete(map, type) ==
  IF map = <<>>
    THEN <<>>
    ELSE IF Head(map).type = type
      THEN Tail(map)
      ELSE <<Head(map)>> \o delete(Tail(map), type)

\* what a method of the manager leaves and returns or throws
ManagerReturned(map, value) ==
  [map |-> map, out |-> "value", value |-> value, err |-> NoError]

ManagerThrown(map, err) ==
  [map |-> map, out |-> "error", value |-> Undefined, err |-> err]

getHandler(map, targetType) ==
  IF has(map, targetType) THEN get(map, targetType).handler ELSE "null"

\* variant: set without the has test; Map.set keeps the position of the key
managerAddHandler_overwrite(map, targetType, handler) ==
  ManagerReturned(
    IF has(map, targetType)
      THEN [i \in 1..Len(map) |->
              IF map[i].type = targetType
                THEN [type |-> targetType, handler |-> handler, used |-> FALSE]
                ELSE map[i]]
      ELSE Append(map, [type |-> targetType, handler |-> handler, used |-> FALSE]),
    Undefined)

managerAddHandler(map, targetType, handler) ==
  IF has(map, targetType)
    THEN ManagerThrown(map, AlreadyHasHandlerError(targetType))
    ELSE ManagerReturned(
           Append(map, [type |-> targetType, handler |-> handler, used |-> FALSE]),
           Undefined)

\* variant: the entry is deleted before the used flag is looked at
removeHandler_deleteFirst(map, targetType) ==
  IF has(map, targetType) /\ get(map, targetType).used
    THEN ManagerThrown(delete(map, targetType), CanNotRemoveError(targetType))
    ELSE ManagerReturned(delete(map, targetType), Undefined)

\* variant: the used flag is not looked at
removeHandler_unchecked(map, targetType) ==
  ManagerReturned(delete(map, targetType), Undefined)

removeHandler(map, targetType) ==
  IF has(map, targetType) /\ get(map, targetType).used
    THEN ManagerThrown(map, CanNotRemoveError(targetType))
    ELSE ManagerReturned(delete(map, targetType), Undefined)

\* the entries of the map that are used, in iteration order
UsedEntries(map) == SelectSeq(map, LAMBDA e : e.used)

\* variant: the entries are deleted one by one until a used one is met
clearHandlers_partial(map) ==
  IF UsedEntries(map) # <<>>
    THEN ManagerThrown(
           LET first == CHOOSE i \in 1..Len(map) :
                          map[i].used /\ \A j \in 1..(i - 1) : ~map[j].used
           IN SubSeq(map, first, Len(map)),
           CanNotClearError(Head(UsedEntries(map)).type))
    ELSE ManagerReturned(<<>>, Undefined)

clearHandlers(map) ==
  IF UsedEntries(map) # <<>>
    THEN ManagerThrown(map, CanNotClearError(Head(UsedEntries(map)).type))
    ELSE ManagerReturned(<<>>, Undefined)

\* handlerEntry.used = true
markUsed(map, type) ==
  [i \in 1..Len(map) |->
     IF map[i].type = type THEN [map[i] EXCEPT !.used = TRUE] ELSE map[i]]

\* the manager returns what the handler returns, null and undefined included
managerResolve(map, type) ==
  IF ~has(map, type)
    THEN ManagerThrown(map, NoInjectionHandlerError(type))
    ELSE LET handler == get(map, type).handler
         IN IF HandlerThrows(handler)
              THEN ManagerThrown(markUsed(map, type), HandlerError(handler))
              ELSE ManagerReturned(markUsed(map, type), HandlerValue(handler))

ManagerCall(op, type, handler, r) ==
  [NoCall EXCEPT !.op = op, !.type = type, !.handler = handler,
                 !.out = r.out, !.value = r.value, !.err = r.err, !.cause = r.err]

ManagerAddHandler(targetType, handler) ==
  LET r == managerAddHandler(entries, targetType, handler)
  IN /\ Idle
     /\ entries' = r.map
     /\ last' = ManagerCall("manager.addHandler", targetType, handler, r)
     /\ UNCHANGED answered

RemoveHandler(targetType) ==
  LET r == removeHandler(entries, targetType)
  IN /\ Idle
     /\ entries' = r.map
     /\ last' = ManagerCall("manager.removeHandler", targetType, "none", r)
     /\ answered' = IF has(r.map, targetType) THEN answered
                                              ELSE answered \ {targetType}

ClearHandlers ==
  LET r == clearHandlers(entries)
  IN /\ Idle
     /\ entries' = r.map
     /\ last' = ManagerCall("manager.clearHandlers", NoType, "none", r)
     /\ answered' = {t \in answered : has(r.map, t)}

ManagerResolve(type) ==
  LET r == managerResolve(entries, type)
  IN /\ Idle
     /\ entries' = r.map
     /\ last' = ManagerCall("manager.resolve", type, "none", r)
     /\ answered' = IF r.out = "value" THEN answered \cup {type} ELSE answered

(***************************************************************************)
(* Injectable classes and injected properties.  The default handler and    *)
(* the accessor of an injected property follow their description: the      *)
(* handler constructs its class with create and, when shared, keeps the    *)
(* first instance; the accessor resolves on the first read and caches the  *)
(* value on the instance.                                                  *)
(***************************************************************************)
\* @injectable @shared class MySingletonClass; @injectable class
\* MyInjectableClass
InjectableConfig(type) == [shared |-> type = "Base"]

\* the classes with an @inject singleton property are the clients and
\* MyInjectableClass; autoInjectableClass is a property of the clients
HasProperty(objects, instance, name) ==
  \/ instance \in Clients
  \/ /\ name = "singleton"
     /\ \E i \in 1..Len(objects) :
          ObjectNames[i] = instance /\ objects[i] = "Derived"

\* the object create returns, with its identity
NewObject(objects, created) == [created EXCEPT !.val = ObjectNames[Len(objects) + 1]]

\* what handleInjection returns: the value, and the heap and the instance
\* fields after the call
HandlerResult(value, objects, instances) ==
  [value |-> value, heap |-> objects, instances |-> instances]

\* the handler constructs object and, when shared, keeps it
constructed(h, objects, instances, object) ==
  HandlerResult(object, Append(objects, HandlerType(h)),
            IF HandlerShared(h) THEN [instances EXCEPT ![h] = object] ELSE instances)

\* DefaultInjectionHandler.handleInjection
handleInjection(h, map, objects, instances) ==
  IF HandlerShared(h) /\ instances[h] # NoInstance
    THEN HandlerResult(instances[h], objects, instances)
    ELSE constructed(h, objects, instances,
                     NewObject(objects, create(map, HandlerType(h), <<>>).value))

\* the handler whose value resolve returned
AnsweredBy(r) == IF r.out = "value" THEN r.calls[Len(r.calls)].handler ELSE "none"

\* the outcome r of resolve with the value d of the default handler
withInjected(r, by, d) ==
  [r |-> [r EXCEPT !.value = d.value], by |-> by,
   heap |-> d.heap, instances |-> d.instances]

\* the outcome r of resolve, the value of a default handler being the
\* object it constructs or has kept
withDefaultHandlers(r, by, map, objects, instances) ==
  IF by \in DefaultHandlers
    THEN withInjected(r, by, handleInjection(by, map, objects, instances))
    ELSE [r |-> r, by |-> by, heap |-> objects, instances |-> instances]

resolved(r, map, objects, instances) ==
  withDefaultHandlers(r, AnsweredBy(r), map, objects, instances)

\* resolve with the default handlers among the handlers
resolveInjectable(map, type, injection, objects, instances) ==
  resolved(resolve(map, type, injection), map, objects, instances)

\* the request of the accessor of property name of instance
AccessorInjection(instance, name) ==
  [PropertyInjection(This) EXCEPT !.instance = instance, !.name = name]

\* the accessor keeps the value x that was resolved
cacheValue(cache, instance, name, x) ==
  [r |-> x.r, heap |-> x.heap, instances |-> x.instances,
   cache |-> IF x.r.out = "value"
               THEN [cache EXCEPT ![instance][name] =
                       [cached |-> TRUE, value |-> x.r.value, by |-> x.by]]
               ELSE cache]

\* the accessor of an injected property
getProperty(cache, instance, name, map, objects, instances) ==
  IF cache[instance][name].cached
    THEN [r |-> Returned(cache[instance][name].value, <<>>), heap |-> objects,
          instances |-> instances, cache |-> cache]
    ELSE cacheValue(cache, instance, name,
                    resolveInjectable(map, PropType(name),
                                      AccessorInjection(instance, name),
                                      objects, instances))

\* addInjectable(type, config) of the @injectable decorator, applied once to
\* each class
AddInjectable(type, config) ==
  LET handler == NewDefaultInjectionHandler(type, config)
  IN /\ \A i \in 1..Len(regLog) :
          ~(regLog[i].type = type /\ regLog[i].handler \in DefaultHandlers)
     /\ AddHandler(type, handler)

\* instance[name] is read
ReadProperty(instance, name) ==
  \E g \in {getProperty(propCache, instance, name, handlers, heap, sharedInstance)} :
     /\ Idle
     /\ HasProperty(heap, instance, name)
     /\ Len(g.heap) <= MaxObjects
     /\ heap' = g.heap
     /\ sharedInstance' = g.instances
     /\ propCache' = g.cache
     /\ last' = [NoCall EXCEPT !.op = "read", !.type = PropType(name),
                               !.injection = AccessorInjection(instance, name),
                               !.before = handlers,
                               !.out = g.r.out, !.value = g.r.value,
                               !.err = g.r.err, !.cause = g.r.cause,
                               !.calls = g.r.calls]
     /\ UNCHANGED <<handlers, regLog>>

(***************************************************************************)
(* @property: the accessor pair the decorator defines on a widget class.   *)
(* The widget has one decorated property, declared with type number.       *)
(***************************************************************************)
PropertyName == "myProp"

\* getPropertyType(widgetProto, propertyName)
TargetType == "Number"

\* propertyName + 'Changed'
ChangeEventType(propertyName) == <<propertyName, "Changed">>

NaN == Prim("Number", "NaN")

\* currentValue !== value
StrictNotEqual(currentValue, value) == currentValue # value \/ value = NaN

\* checkType(value, targetType) of ./utils: it returns (TRUE) or throws
\* (FALSE); which of the two it does for a value is decided outside this
\* file
checkType(value, targetType) == BOOLEAN

\* ex.message of the error checkType throws
CheckTypeError(value, targetType) == <<"ex.message", targetType>>

\* Error(`Failed to set property "${propertyName}": ${ex.message}`)
SetPropertyError(propertyName, message) ==
  <<"Failed to set property", propertyName, ":">> \o message

\* the error setterTypeCheck throws, NoError when checkType returns
setterTypeCheck(propertyName, value, targetType, passes) ==
  IF passes THEN NoError
            ELSE SetPropertyError(propertyName, CheckTypeError(value, targetType))

\* new ChangeEvent(this, changeEvent, value), with what the getter returns
\* while the event is triggered
ChangeEvent(changeEvent, value, stored) ==
  [type |-> changeEvent, value |-> value, stored |-> stored]

\* what the setter leaves behind and whether it called the type check
SetterResult(store, events, err, checked) ==
  [store |-> store, events |-> events, checked |-> checked,
   out |-> IF err = NoError THEN "value" ELSE "error", err |-> err]

\* variant: the value is compared with nothing
set_unconditional(store, events, propertyName, value, err) ==
  IF err # NoError
    THEN SetterResult(store, events, err, TRUE)
    ELSE SetterResult(value,
           Append(events, ChangeEvent(ChangeEventType(propertyName), value, value)),
           NoError, TRUE)

\* variant: the value is stored before it is checked
set_storeFirst(store, events, propertyName, value, err) ==
  IF StrictNotEqual(store, value)
    THEN IF err # NoError
           THEN SetterResult(value, events, err, TRUE)
           ELSE SetterResult(value,
                  Append(events, ChangeEvent(ChangeEventType(propertyName), value, value)),
                  NoError, TRUE)
    ELSE SetterResult(store, events, NoError, FALSE)

\* the setter; err is what setterTypeCheck throws for the value
set(store, events, propertyName, value, err) ==
  IF StrictNotEqual(store, value)
    THEN IF err # NoError
           THEN SetterResult(store, events, err, TRUE)
           ELSE SetterResult(value,
                  Append(events, ChangeEvent(ChangeEventType(propertyName), value, value)),
                  NoError, TRUE)
    ELSE SetterResult(store, events, NoError, FALSE)

\* the call of setterTypeCheck, as an entry of last.calls
TypeCheckCall ==
  [handler |-> "setterTypeCheck", injection |-> NoInjection, injector |-> This]

\* widget.myProp = value
SetProperty(value) ==
  \E passes \in checkType(value, TargetType) :
    \E r \in {set(propertyStore, triggered, PropertyName, value,
                  setterTypeCheck(PropertyName, value, TargetType, passes))} :
      /\ Idle
      /\ Len(triggered) < MaxEvents
      /\ propertyStore' = r.store
      /\ triggered' = r.events
      /\ last' = [NoCall EXCEPT !.op = "set", !.type = TargetType,
                                !.args = <<value>>, !.out = r.out,
                                !.err = r.err, !.cause = r.err,
                                !.calls = IF r.checked THEN <<TypeCheckCall>>
                                                       ELSE <<>>]

\* widget.myProp is read
GetProperty ==
  /\ Idle
  /\ last' = [NoCall EXCEPT !.op = "get", !.out = "value", !.value = propertyStore]
  /\ UNCHANGED <<propertyStore, triggered>>

(***************************************************************************)
(* ItemPicker.  The operators work on the picker together with the         *)
(* subscriptions to its items and the trace of the running call.           *)
(***************************************************************************)
\* the picker, the subscriptions and an empty trace, when a call begins
Now == [picker |-> picker, subscriptions |-> subscriptions, trace |-> <<>>]

\* the element of a set of one element; an operator below takes the state
\* it is given as the one element of a set, so that it is computed once
The(S) == CHOOSE x \in S : TRUE

\* the call did something that others observe
Log(s, what, index) ==
  [s EXCEPT !.trace = Append(@, [what |-> what, index |-> index])]

\* a call that returns
Returns(s) == [s |-> s, out |-> "value", err |-> NoError]

\* a call that throws
Throws(s, err) == [s |-> s, out |-> "error", err |-> err]

\* variant: the event is triggered whether or not a refresh is in progress
_handleSelectionIndexChanged_always(state) ==
  The({Log(s, "onSelectionChanged", s.picker.selectionIndex) : s \in {state}})

\* _handleSelectionIndexChanged
_handleSelectionIndexChanged(state) ==
  The({IF ~s.picker._inRefresh
         THEN Log(s, "onSelectionChanged", s.picker.selectionIndex)
         ELSE s : s \in {state}})

RECURSIVE _refresh(_, _)

\* the listeners of selectionIndexChanged: the picker's own, and with
\* reenter another one that ends in a call of _refresh
selectionIndexChanged(s, reenter) ==
  IF reenter THEN _refresh(_handleSelectionIndexChanged(s), FALSE)
             ELSE _handleSelectionIndexChanged(s)

\* this.selectionIndex = value
setSelectionIndex(state, value, reenter) ==
  The({IF value = s.picker.selectionIndex
         THEN s
         ELSE selectionIndexChanged(
                Log([s EXCEPT !.picker.selectionIndex = value],
                    "selectionIndexChanged", value),
                reenter) : s \in {state}})

\* this._inRefresh = false
endRefresh(state) ==
  The({Log([s EXCEPT !.picker._inRefresh = FALSE], "_refresh returns",
           s.picker.selectionIndex) : s \in {state}})

\* _refresh from this._inRefresh = true on
refreshSelection(s, selectionIndex, reenter) ==
  endRefresh(
    setSelectionIndex(
      setSelectionIndex(
        Log([s EXCEPT !.picker._inRefresh = TRUE], "_refresh", selectionIndex),
        -1, reenter),
      selectionIndex, reenter))

_refresh(state, reenter) ==
  The({IF s.picker._inRefresh
         THEN Log(s, "_refresh skipped", s.picker.selectionIndex)
         ELSE refreshSelection(s, s.picker.selectionIndex, reenter) : s \in {state}})

\* one subscription less, and none to any item when it was the only one
cancelled(subscription) ==
  IF subscription.live = 1 THEN NoSubscription
                           ELSE [subscription EXCEPT !.live = @ - 1]

\* the unsubscriber of the item at the index is called: () => undefined for
\* 0, the one subscribe returned otherwise
unsubscribe(s, index) ==
  IF index = 0
    THEN s
    ELSE Log([s EXCEPT !.subscriptions[index] = cancelled(@)], "unsubscribe", index)

RECURSIVE forEachUnsubscribe(_, _)
forEachUnsubscribe(s, cancels) ==
  IF cancels = <<>>
    THEN s
    ELSE forEachUnsubscribe(unsubscribe(s, Head(cancels)), Tail(cancels))

\* variant: the unsubscribers are dropped without being called
_unbindItems_forget(state) ==
  The({[s EXCEPT !.picker._unsubsribers = NoUnsubscribers] : s \in {state}})

\* _unbindItems
_unbindItems(state) ==
  The({[forEachUnsubscribe(s, s.picker._unsubsribers.cancels)
          EXCEPT !.picker._unsubsribers = NoUnsubscribers] : s \in {state}})

\* String(item)
ItemText(item) == <<"String", item>>

\* binding.converter(value) for the value at the path in the item
BoundText(item, path) == <<"String", item>> \o path

\* texts[index] = 'undefined'
UndefinedText == <<"undefined">>

\* what subscribe(item, path, callback) can do: it returns, the callback
\* having computed the text of the item, or it throws; a callback that fails
\* to compute the text is a later callback, ItemChanged
SubscribeOutcomes == {"text", "throws"}

\* the item at the index is subscribed to; b holds the state and the arrays
\* the map and the callbacks fill
subscribeItem(b, item, path, index, outcome) ==
  IF outcome = "throws"
    THEN [s |-> Log(b.s, "subscribe throws", index),
          cancels |-> Append(b.cancels, 0),
          texts |-> Append(b.texts, UndefinedText)]
    ELSE [s |-> Log([b.s EXCEPT !.subscriptions[index] =
                       [item |-> item, live |-> @.live + 1]],
                    "subscribe", index),
          cancels |-> Append(b.cancels, index),
          texts |-> Append(b.texts, BoundText(item, path))]

RECURSIVE mapItems(_, _, _, _)
mapItems(arrays, path, outcomes, index) ==
  The({IF index > Len(b.s.picker.items.items)
         THEN b
         ELSE mapItems(subscribeItem(b, b.s.picker.items.items[index], path, index,
                                     outcomes[index]),
                       path, outcomes, index + 1) : b \in {arrays}})

\* this._unsubsribers = ...; this._texts = the texts _bindItems returns
bound(arrays) ==
  The({[b.s EXCEPT !.picker._unsubsribers = Unsubscribers(b.cancels),
                   !.picker._texts = Texts(b.texts)] : b \in {arrays}})

_bindItems(s, binding, outcomes) ==
  bound(mapItems([s |-> s, cancels |-> <<>>, texts |-> <<>>],
                 binding.path, outcomes, 1))

\* Array.from(this.items, String)
itemTexts(items) == [i \in 1..Len(items) |-> ItemText(items[i])]

\* _computeTexts after _unbindItems and before _refresh
computeTexts(state, outcomes) ==
  The({IF s.picker.items.id = "null"
         THEN [s EXCEPT !.picker._texts = NoTexts]
         ELSE IF s.picker._textSource.kind = "binding"
           THEN _bindItems(s, s.picker._textSource, outcomes)
           ELSE [s EXCEPT !.picker._texts = Texts(itemTexts(s.picker.items.items))]
       : s \in {state}})

_computeTexts(s, outcomes, reenter) ==
  _refresh(computeTexts(_unbindItems(Log(s, "_computeTexts", 0)), outcomes),
           reenter)

\* checkPathSyntax of ../internals/utils-databinding throws
PathSyntaxError == <<"checkPathSyntax throws">>

InvalidCharacterError == <<"textSource path starts with invalid character">>

\* path.startsWith(character)
startsWith(path, character) == Len(path) > 0 /\ path[1] = character

\* the binding the textSource setter makes of the value
bindingOf(value) ==
  IF value.kind = "string" /\ value.path # EmptyText THEN Binding(value.path)
                                                     ELSE NoTextSource

\* the textSource setter from the checks of the binding on
setBinding(s, value, binding, syntaxOk, outcomes, reenter) ==
  IF binding.kind = "binding" /\ ~syntaxOk
    THEN Throws(s, PathSyntaxError)
    ELSE IF /\ binding.kind = "binding"
            /\ (startsWith(binding.path, ".") \/ startsWith(binding.path, "#"))
      THEN Throws(s, InvalidCharacterError)
      ELSE Returns(_computeTexts(
                     Log([s EXCEPT !.picker._textSource = binding],
                         "onTextSourceChanged", 0),
                     outcomes, reenter))

\* set textSource
setTextSource(s, value, syntaxOk, outcomes, reenter) ==
  IF value = s.picker._textSource
    THEN Returns(s)
    ELSE setBinding(s, value, bindingOf(value), syntaxOk, outcomes, reenter)

\* ev.target.length of null
TargetLengthError == <<"TypeError", "ev.target", "length">>

\* the Mutation event of a list: what was inserted, where, how many items
\* were deleted, and the target
Mutation(start, deleteCount, items, targetNull, targetLength) ==
  [start |-> start, deleteCount |-> deleteCount, items |-> items,
   target |-> [null |-> targetNull, length |-> targetLength]]

\* _handleListMutation after _computeTexts
adjustSelection(state, ev, reenter) ==
  The({IF ev.target.length = 0
         THEN setSelectionIndex(s, -1, reenter)
         ELSE IF Len(ev.items) = ev.target.length
           THEN setSelectionIndex(s, 0, reenter)
           ELSE IF ev.deleteCount = Len(ev.items)
             THEN Log(s, "onSelectionChanged", s.picker.selectionIndex)
             ELSE IF ev.start <= s.picker.selectionIndex
               THEN setSelectionIndex(s, -1, reenter)
               ELSE s : s \in {state}})

_handleListMutation(s, ev, outcomes, reenter) ==
  IF ev.target.null
    THEN Throws(s, TargetLengthError)
    ELSE Returns(adjustSelection(
                   _computeTexts([s EXCEPT !.picker.itemCount = ev.target.length],
                                 outcomes, reenter),
                   ev, reenter))

\* what the observer does when its source is set: a call of the callback
\* with the source as the target, or one with an empty target for a null
\* source
Deliveries(value) == IF value.id = "null" THEN {"source", "array"} ELSE {"source"}

\* this.onItemsChanged.trigger({value}) if the observer's callback returned
itemsChanged(result) ==
  The({IF r.out = "error" THEN r ELSE Returns(Log(r.s, "onItemsChanged", 0))
       : r \in {result}})

\* this._observer.source = value
setSource(s, old, value, delivery, outcomes, reenter) ==
  _handleListMutation(s,
    Mutation(0, Len(old.items), value.items,
             delivery = "source" /\ value.id = "null", Len(value.items)),
    outcomes, reenter)

\* set items
setItems(s, value, delivery, outcomes, reenter) ==
  IF value.id = s.picker.items.id
    THEN Returns(s)
    ELSE itemsChanged(setSource([s EXCEPT !.picker.items = value],
                                s.picker.items, value, delivery, outcomes, reenter))

\* list.splice(start, deleteCount, ...items)
splice(list, start, deleteCount, items) ==
  [i \in 1..(IF start < Len(list) THEN start ELSE Len(list)) |-> list[i]]
    \o items
    \o [i \in 1..(Len(list) - start - deleteCount) |-> list[start + deleteCount + i]]

\* the callback of the subscription: texts[index] is computed again, and
\* since initial is false the picker is refreshed
itemCallback(s, index, text, reenter) ==
  _refresh(Log([s EXCEPT !.picker._texts.texts[index] = text], "callback", index),
           reenter)

\* a call of the picker ends
PickerCall(op, r) ==
  /\ Idle
  /\ picker' = r.s.picker
  /\ subscriptions' = r.s.subscriptions
  /\ trace' = r.s.trace
  /\ last' = [NoCall EXCEPT !.op = op, !.out = r.out, !.err = r.err]

\* the outcomes of the subscribe calls of one _computeTexts, by item index;
\* without a binding subscribe is not called
Outcomes(binding, items) ==
  IF binding.kind = "binding" THEN [1..Len(items) -> SubscribeOutcomes]
                              ELSE {[index \in 1..Len(items) |-> "text"]}

\* picker.textSource = value
SetTextSource(value, syntaxOk, reenter) ==
  /\ Idle
  /\ \E outcomes \in Outcomes(bindingOf(value), picker.items.items) :
       \E r \in {setTextSource(Now, value, syntaxOk, outcomes, reenter)} :
         PickerCall("textSource", r)

\* picker.items = value
SetItems(value, delivery, reenter) ==
  /\ Idle
  /\ value.id = picker.items.id => value = picker.items
  /\ \E outcomes \in Outcomes(picker._textSource, value.items) :
       \E r \in {setItems(Now, value, delivery, outcomes, reenter)} :
         PickerCall("items", r)

\* the list the picker shows is changed in place, and the observer calls
\* _handleListMutation
ListMutation(start, deleteCount, items, reenter) ==
  /\ Idle
  /\ picker.items.id # "null"
  /\ start + deleteCount <= Len(picker.items.items)
  /\ deleteCount + Len(items) > 0
  /\ \E list \in {splice(picker.items.items, start, deleteCount, items)} :
       /\ Len(list) <= MaxItems
       /\ \E outcomes \in Outcomes(picker._textSource, list) :
            \E r \in {_handleListMutation(
                        [Now EXCEPT !.picker.items.items = list],
                        Mutation(start, deleteCount, items, FALSE, Len(list)),
                        outcomes, reenter)} :
              PickerCall("mutation", r)

\* picker.selectionIndex = value, by the application or by a selection on
\* the device
SetSelectionIndex(value, reenter) ==
  /\ Idle
  /\ \E r \in {Returns(setSelectionIndex(Now, value, reenter))} :
       PickerCall("selectionIndex", r)

\* the bound property of the item at the index changes, and its
\* subscription calls back
ItemChanged(index, outcome, reenter) ==
  /\ Idle
  /\ subscriptions[index].live > 0
  /\ index <= Len(picker._texts.texts)
  /\ \E r \in {Returns(itemCallback(Now, index,
                                    IF outcome = "text"
                                      THEN BoundText(subscriptions[index].item,
                                                     picker._textSource.path)
                                      ELSE UndefinedText,
                                    reenter))} :
       PickerCall("callback", r)

(***************************************************************************)
(* Inputs of the calls.                                                    *)
(***************************************************************************)
\* addHandler calls made by the program: each handler with a type it is
\* declared for (InjectionHandler<U extends T>)
Registrations ==
  {<<"Base", "hNull">>, <<"Base", "hObj">>, <<"Base", "hThrow">>,
   <<"Derived", "hUndef">>, <<"Derived", "hDerived">>,
   <<"Number", "hZero">>, <<"Object", "hObj">>}

PrimitiveRegistrations ==
  {<<"Number", "hZero">>, <<"Number", "hBoxZero">>, <<"Number", "hBox23">>,
   <<"Number", "hNull">>,
   <<"String", "hEmpty">>, <<"String", "hBoxEmpty">>, <<"String", "hUndef">>,
   <<"Boolean", "hFalse">>, <<"Boolean", "hBoxFalse">>,
   <<"Base", "hNull">>, <<"Base", "hBoxFalse">>, <<"Base", "hObj">>}

Injections ==
  {NoInjection, PropertyInjection(This), PropertyInjection(OtherInjector)}

ArgValues == {Undefined, Prim("String", "foo3")}

ArgLists == UNION {[1..n -> ArgValues] : n \in 0..MaxArgs}

\* the variables of the InjectionManager
managerVars == <<entries, answered>>

\* the variables of the injectable classes and the injected properties
injectVars == <<heap, sharedInstance, propCache>>

\* the variables of the widget with the @property-decorated property
propertyVars == <<propertyStore, triggered>>

\* the variables of the ItemPicker
pickerVars == <<picker, subscriptions, trace>>

widgetVars == <<propertyVars, pickerVars>>

Next ==
  \/ \E reg \in Registrations :
       AddHandler(reg[1], reg[2]) /\ UNCHANGED <<usedSinceReset, managerVars, injectVars, declared, widgetVars>>
  \/ Reset /\ UNCHANGED <<usedSinceReset, managerVars, injectVars, declared, widgetVars>>
  \/ \E type \in Types \cup {NoType}, injection \in Injections :
       Resolve(type, injection) /\ UNCHANGED <<usedSinceReset, managerVars, injectVars, declared, widgetVars>>
  \/ \E type \in Creatable \cup {NoType}, args \in ArgLists :
       Create(type, args) /\ UNCHANGED <<usedSinceReset, managerVars, injectVars, declared, widgetVars>>
  \/ Return

Spec == Init /\ [][Next]_vars

\* the injector used for primitive injection sites only
NextPrimitive ==
  \/ \E reg \in PrimitiveRegistrations :
       AddHandler(reg[1], reg[2]) /\ UNCHANGED <<usedSinceReset, managerVars, injectVars, declared, widgetVars>>
  \/ Reset /\ UNCHANGED <<usedSinceReset, managerVars, injectVars, declared, widgetVars>>
  \/ \E type \in PrimitiveTypes \cup {"Base"}, injection \in Injections :
       Resolve(type, injection) /\ UNCHANGED <<usedSinceReset, managerVars, injectVars, declared, widgetVars>>
  \/ Return

SpecPrimitive == Init /\ [][NextPrimitive]_vars

\* the calls made on the InjectionManager
ManagerTypes == {"Base", "Derived", "Number"}

ManagerRegistrations ==
  {<<"Base", "hObj">>, <<"Base", "hThrow">>, <<"Derived", "hDerived">>,
   <<"Number", "hZero">>, <<"Number", "hNull">>}

NextManager ==
  \/ \E reg \in ManagerRegistrations :
       ManagerAddHandler(reg[1], reg[2]) /\ UNCHANGED <<handlers, regLog, usedSinceReset, injectVars, declared, widgetVars>>
  \/ \E type \in ManagerTypes :
       RemoveHandler(type) /\ UNCHANGED <<handlers, regLog, usedSinceReset, injectVars, declared, widgetVars>>
  \/ ClearHandlers /\ UNCHANGED <<handlers, regLog, usedSinceReset, injectVars, declared, widgetVars>>
  \/ \E type \in ManagerTypes :
       ManagerResolve(type) /\ UNCHANGED <<handlers, regLog, usedSinceReset, injectVars, declared, widgetVars>>
  \/ Return

SpecManager == Init /\ [][NextManager]_vars

\* the injector with the history of its use recorded
NextTeardown ==
  \/ \E reg \in Registrations :
       AddHandler(reg[1], reg[2]) /\ UNCHANGED <<usedSinceReset, managerVars, injectVars, declared, widgetVars>>
  \/ Reset /\ usedSinceReset' = FALSE /\ UNCHANGED <<managerVars, injectVars, declared, widgetVars>>
  \/ \E type \in Types :
       /\ Resolve(type, NoInjection)
       /\ usedSinceReset' = (usedSinceReset \/ last'.out = "value")
       /\ UNCHANGED <<managerVars, injectVars, declared, widgetVars>>
  \/ Return

SpecTeardown == Init /\ [][NextTeardown]_vars

\* the injector with injectable classes and the reads of injected properties
InjectRegistrations == {<<"Derived", "hUndef">>}

NextInject ==
  \/ \E type \in InjectableTypes :
       /\ AddInjectable(type, InjectableConfig(type))
       /\ UNCHANGED <<usedSinceReset, managerVars, injectVars, declared, widgetVars>>
  \/ \E reg \in InjectRegistrations :
       AddHandler(reg[1], reg[2]) /\ UNCHANGED <<usedSinceReset, managerVars, injectVars, declared, widgetVars>>
  \/ \E instance \in Owners, name \in Props :
       ReadProperty(instance, name) /\ UNCHANGED <<usedSinceReset, managerVars, declared, widgetVars>>
  \/ Return

SpecInject == Init /\ [][NextInject]_vars

(***************************************************************************)
(* The decorators @shared and @injectable.  Decorators are applied to a    *)
(* class from the innermost outwards: @injectable @shared class applies    *)
(* shared first.                                                           *)
(***************************************************************************)
SharedOrderError == <<"@shared must be defined before @injectable">>

\* @shared: marks the class, unless @injectable has been applied already
sharedDecorator(decl, type) ==
  IF decl[type].injectable
    THEN [decl |-> decl, out |-> "error", err |-> SharedOrderError]
    ELSE [decl |-> [decl EXCEPT ![type].shared = TRUE], out |-> "value",
          err |-> NoError]

\* @shared is applied to the class
Shared(type) ==
  \E r \in {sharedDecorator(declared, type)} :
    /\ Idle
    /\ declared' = r.decl
    /\ last' = [NoCall EXCEPT !.op = "shared", !.type = type, !.before = handlers,
                              !.out = r.out, !.err = r.err, !.cause = r.err]

\* @injectable is applied to the class: addInjectable with the shared mark
\* the class carries at that moment
Injectable(type) ==
  /\ ~declared[type].injectable
  /\ AddInjectable(type, [shared |-> declared[type].shared])
  /\ declared' = [declared EXCEPT ![type].injectable = TRUE]

NextDecorate ==
  \/ \E type \in InjectableTypes :
       Shared(type) /\ UNCHANGED <<handlers, regLog, usedSinceReset, managerVars, injectVars, widgetVars>>
  \/ \E type \in InjectableTypes :
       Injectable(type) /\ UNCHANGED <<usedSinceReset, managerVars, injectVars, widgetVars>>
  \/ \E instance \in Owners, name \in Props :
       ReadProperty(instance, name) /\ UNCHANGED <<usedSinceReset, managerVars, declared, widgetVars>>
  \/ Return

SpecDecorate == Init /\ [][NextDecorate]_vars

\* the assignments to the decorated property and its reads
PropertyValues ==
  {Undefined, Null, Prim("Number", "0"), Prim("Number", "23"), NaN,
   Prim("String", "foo3"), Obj("Base", "service")}

NextProperty ==
  \/ \E value \in PropertyValues :
       /\ SetProperty(value)
       /\ UNCHANGED <<handlers, regLog, usedSinceReset, managerVars, injectVars,
                      declared, pickerVars>>
  \/ /\ GetProperty
     /\ UNCHANGED <<handlers, regLog, usedSinceReset, managerVars, injectVars,
                    declared, pickerVars>>
  \/ Return

SpecProperty == Init /\ [][NextProperty]_vars

\* what is assigned to textSource
TextSourceValues ==
  {NoTextSource, PathString(PathText), PathString(DotPathText),
   PathString(HashPathText), PathString(EmptyText)}

\* the other variables while the picker is used
PickerFrame ==
  UNCHANGED <<handlers, regLog, usedSinceReset, managerVars, injectVars,
              declared, propertyVars>>

NextPicker ==
  \/ \E value \in TextSourceValues, syntaxOk \in BOOLEAN, reenter \in BOOLEAN :
       SetTextSource(value, syntaxOk, reenter) /\ PickerFrame
  \/ \E value \in Lists \cup {NullList}, reenter \in BOOLEAN :
       \E delivery \in Deliveries(value) :
         SetItems(value, delivery, reenter) /\ PickerFrame
  \/ \E start \in 0..MaxItems, deleteCount \in 0..MaxItems, items \in ListContents,
        reenter \in BOOLEAN :
       ListMutation(start, deleteCount, items, reenter) /\ PickerFrame
  \/ \E value \in -1..(MaxItems - 1), reenter \in BOOLEAN :
       SetSelectionIndex(value, reenter) /\ PickerFrame
  \/ \E index \in 1..MaxItems, outcome \in {"text", "undefined"},
        reenter \in BOOLEAN :
       ItemChanged(index, outcome, reenter) /\ PickerFrame
  \/ Return

SpecPicker == Init /\ [][NextPicker]_vars

(***************************************************************************)
(* Vocabulary of the properties, stated from the history of addHandler     *)
(* calls rather than from the HandlersMap.                                 *)
(***************************************************************************)
\* a handler registered for type reg is offered to a request for type T
Serves(reg, T) ==
  /\ T # "Object"
  /\ reg = T \/ (reg = "Derived" /\ T = "Base")

\* the handlers of the addHandler calls of log made for one of types,
\* newest first
RECURSIVE NewestFirst(_, _)
NewestFirst(log, types) ==
  IF log = <<>>
    THEN <<>>
    ELSE LET e == log[Len(log)]
             older == NewestFirst(SubSeq(log, 1, Len(log) - 1), types)
         IN IF e.type \in types THEN <<e.handler>> \o older ELSE older

\* the handlers registered since the last reset for exactly type reg
RegisteredFor(reg) == NewestFirst(regLog, {reg})

\* the handlers registered since the last reset that serve T
ChainOf(T) == NewestFirst(regLog, {reg \in Types : Serves(reg, T)})

\* the handler returns null or undefined
Declines(h) ==
  ~HandlerThrows(h) /\ HandlerValue(h).kind \in {"null", "undefined"}

\* position of the first handler of the chain that does not decline, 0 if none
Winner(chain) ==
  IF \E k \in 1..Len(chain) : ~Declines(chain[k])
    THEN CHOOSE k \in 1..Len(chain) :
           ~Declines(chain[k]) /\ \A j \in 1..(k - 1) : Declines(chain[j])
    ELSE 0

\* the handlers invoked by the last call, in order
Invoked == [i \in 1..Len(last.calls) |-> last.calls[i].handler]

\* the primitive a wrapper stands for
AsPrimitive(v) == IF v.kind = "boxed" THEN [v EXCEPT !.kind = "prim"] ELSE v

\* what a request for T gets from a handler that answers it
Delivered(T, h) ==
  IF T \in PrimitiveTypes THEN AsPrimitive(HandlerValue(h)) ELSE HandlerValue(h)

\* the last call was resolve(T) on this injector's own injection sites
ResolvedHere ==
  /\ last.op = "resolve"
  /\ last.type \in Types
  /\ ~(last.injection.present /\ last.injection.injector = OtherInjector)

\* C1: resolve(T) tries the handlers serving T newest first and returns the
\* result of the first that answers with a defined value; the handlers
\* before it are each invoked once, in order, those after it not at all.
C1_FirstDefinedWins ==
  ResolvedHere =>
    LET chain == ChainOf(last.type)
        k == Winner(chain)
    IN (k > 0 /\ ~HandlerThrows(chain[k])) =>
         /\ last.out = "value"
         /\ last.value = Delivered(last.type, chain[k])
         /\ Invoked = SubSeq(chain, 1, k)

\* C1 witness: h1 = hObj then h2 = hNull then hObj again were registered for
\* Base; hObj answers first, after nothing, and the older two are not invoked.
C1_Witness ==
  /\ ResolvedHere
  /\ last.type = "Base"
  /\ ChainOf("Base") = <<"hObj", "hNull", "hObj">>
  /\ Invoked = <<"hObj">>
  /\ last.value = Obj("Base", "service")

\* C2: resolve(T) for a T that no registered handler serves fails with the
\* 'no compatible injection handler exists' error naming T, and invokes no
\* handler.
C2_NoHandlerError ==
  (ResolvedHere /\ ChainOf(last.type) = <<>>) =>
    /\ last.out = "error"
    /\ last.err = <<"Could not inject value of type", last.type,
                    "since no compatible injection handler exists for this type.">>
    /\ last.calls = <<>>

\* C2 witness: handlers are registered for other types, none serves Number.
C2_Witness ==
  /\ ResolvedHere
  /\ last.type = "Number"
  /\ Len(regLog) >= 2
  /\ ChainOf("Number") = <<>>
  /\ last.out = "error"

\* C3: when the chain of T is not empty and every handler of it returns null
\* or undefined, resolve(T) invokes all of them in order and fails with the
\* 'no compatible injection handler returned a value' error naming T, which
\* is not the 'no handler' error.
C3_ExhaustedError ==
  (/\ ResolvedHere
   /\ ChainOf(last.type) # <<>>
   /\ \A i \in 1..Len(ChainOf(last.type)) : Declines(ChainOf(last.type)[i])) =>
    /\ last.out = "error"
    /\ last.err = <<"Could not inject value of type", last.type,
                    "since no compatible injection handler returned a value.">>
    /\ last.err # <<"Could not inject value of type", last.type,
                    "since no compatible injection handler exists for this type.">>
    /\ Invoked = ChainOf(last.type)

\* C3 witness: Base is served by a handler returning undefined and one
\* returning null, and both were invoked.
C3_Witness ==
  /\ ResolvedHere
  /\ last.type = "Base"
  /\ Invoked = <<"hNull", "hUndef">>
  /\ last.out = "error"

\* a falsy primitive or a wrapper of one
Falsy(v) ==
  v.kind \in {"prim", "boxed"} /\ v.val \in {"0", "''", "false"}

\* C4: for Number, String and Boolean a handler result false, 0 or "", bare
\* or boxed, is a defined result: resolve returns the primitive and neither
\* goes on to the next handler nor raises the exhaustion error.
C4_FalsyIsDefined ==
  (ResolvedHere /\ last.type \in PrimitiveTypes) =>
    LET chain == ChainOf(last.type)
        k == Winner(chain)
    IN (k > 0 /\ Falsy(HandlerValue(chain[k]))) =>
         /\ last.out = "value"
         /\ last.value = Prim(HandlerValue(chain[k]).type, HandlerValue(chain[k]).val)
         /\ Len(last.calls) = k

\* C4 witness: a boxed false answered a Boolean request while an older
\* handler was still in the chain.
C4_Witness ==
  /\ ResolvedHere
  /\ last.type = "Boolean"
  /\ ChainOf("Boolean") = <<"hBoxFalse", "hFalse">>
  /\ last.value = Prim("Boolean", "false")
  /\ Len(last.calls) = 1

\* C5: a value resolve returns for Number, String or Boolean is a primitive,
\* never a wrapper object; for any other type it is the very value the
\* winning handler returned.
C5_NeverBoxed ==
  (ResolvedHere /\ last.out = "value") =>
    LET winner == last.calls[Len(last.calls)].handler
    IN IF last.type \in PrimitiveTypes
         THEN /\ last.value.kind = "prim"
              /\ last.value.val = HandlerValue(winner).val
         ELSE last.value = HandlerValue(winner)

\* C5 witness: a handler returned new Number(23) for a Number request.
C5_Witness ==
  /\ ResolvedHere
  /\ last.type = "Number"
  /\ last.out = "value"
  /\ HandlerValue(last.calls[Len(last.calls)].handler) = Boxed("Number", "23")

\* C5 witness of the other half: a wrapper returned for a class type stays
\* as it is.
C5_WitnessPass ==
  /\ ResolvedHere
  /\ last.type = "Base"
  /\ last.value = Boxed("Boolean", "false")

\* C6 as stated: with a handler registered for Base and none for Derived,
\* resolve(Derived) invokes a handler instead of failing with the no-handler
\* error; with a handler registered for Derived that one is tried first.
C6_BaseHandlerServesSubtype ==
  (ResolvedHere /\ last.type = "Derived" /\ RegisteredFor("Base") # <<>>) =>
    /\ last.calls # <<>>
    /\ last.err # <<"Could not inject value of type", "Derived",
                    "since no compatible injection handler exists for this type.">>
    /\ RegisteredFor("Derived") # <<>> => Invoked[1] = RegisteredFor("Derived")[1]

\* C6 amended: inheritance works from the subtype to the base type.  A
\* handler registered for Derived is found by resolve(Base) when no handler
\* is registered for Base itself; resolve(Derived) consults the handlers
\* registered for Derived only, newest first, and fails with the no-handler
\* error when there is none, whatever is registered for Base.
C6_SubtypeHandlerServesBase ==
  /\ (/\ ResolvedHere
      /\ last.type = "Base"
      /\ RegisteredFor("Base") = <<>>
      /\ RegisteredFor("Derived") # <<>>) =>
       /\ last.calls # <<>>
       /\ Invoked[1] = RegisteredFor("Derived")[1]
       /\ last.err # <<"Could not inject value of type", "Base",
                       "since no compatible injection handler exists for this type.">>
  /\ (ResolvedHere /\ last.type = "Derived" /\ RegisteredFor("Derived") = <<>>) =>
       /\ last.calls = <<>>
       /\ last.err = <<"Could not inject value of type", "Derived",
                       "since no compatible injection handler exists for this type.">>
  /\ (ResolvedHere /\ last.type = "Derived" /\ RegisteredFor("Derived") # <<>>) =>
       /\ last.calls # <<>>
       /\ Len(Invoked) <= Len(RegisteredFor("Derived"))
       /\ Invoked = SubSeq(RegisteredFor("Derived"), 1, Len(Invoked))

\* C6 witness: only Derived has a handler and resolve(Base) got its value.
C6_Witness ==
  /\ ResolvedHere
  /\ last.type = "Base"
  /\ RegisteredFor("Base") = <<>>
  /\ RegisteredFor("Derived") = <<"hDerived">>
  /\ last.value = Obj("Derived", "derived")

\* C7: addHandler(T, h) puts h at the front of the lists of T and of the
\* ancestors of T below the root type, leaves every other list as it was,
\* keeps the older handlers in place and order, and does not fail.
C7_AddHandlerFrame ==
  last.op = "addHandler" =>
    /\ \A t \in Types :
         handlers[t] = IF Serves(last.type, t)
                         THEN <<last.handler>> \o last.before[t]
                         ELSE last.before[t]
    /\ last.out # "error"

\* C7 witness: hUndef is added for Derived a second time, with lists of
\* Derived, Base and an unrelated type already filled.
C7_Witness ==
  /\ last.op = "addHandler"
  /\ last.type = "Derived"
  /\ last.handler = "hUndef"
  /\ last.before["Derived"] = <<"hUndef">>
  /\ handlers["Derived"] = <<"hUndef", "hUndef">>
  /\ handlers["Base"] = <<"hUndef", "hObj", "hUndef">>

\* the value a constructor parameter of type T is resolved to
Injected(T) == Delivered(T, ChainOf(T)[Winner(ChainOf(T))])

\* C8: create passes the explicit argument at every position without
\* injection metadata and the resolved value at every position with it,
\* whatever explicit argument was given there; also for a subclass that
\* inherits the constructor.
C8_ExplicitAndInjected ==
  (last.op = "create" /\ last.out = "value") =>
    \A i \in 1..Max(Len(last.args), Len(getParamInfo(last.type))) :
      /\ i <= Len(last.finalArgs)
      /\ last.finalArgs[i] =
           IF ParamAt(getParamInfo(last.type), i).present
             THEN Injected(ParamAt(getParamInfo(last.type), i).type)
             ELSE ArgAt(last.args, i)

\* C8 witness: the subclass is created with explicit arguments at
\* positions 0 and 1; position 0 keeps it, position 1 gets the service.
C8_Witness ==
  /\ last.op = "create"
  /\ last.type = "ExtendedConstrutorWithInjection"
  /\ last.args = <<Prim("String", "foo3"), Prim("String", "foo3")>>
  /\ last.out = "value"
  /\ last.finalArgs[1] = Prim("String", "foo3")
  /\ last.finalArgs[2] = Obj("Base", "service")

\* why resolving a parameter of type T recorded for injector inj fails,
\* <<>> when it does not
ResolveFailure(T, inj) ==
  LET chain == ChainOf(T)
      k == Winner(chain)
  IN IF inj # This
       THEN <<"@inject belongs to a different injector">>
       ELSE IF chain = <<>>
         THEN <<"Could not inject value of type", T,
                "since no compatible injection handler exists for this type.">>
         ELSE IF k = 0
           THEN <<"Could not inject value of type", T,
                  "since no compatible injection handler returned a value.">>
           ELSE IF HandlerThrows(chain[k]) THEN <<"handler failed", chain[k]>>
                ELSE <<>>

\* the injected parameters of the class whose resolution fails
FailingParams(type) ==
  {i \in 1..Len(getParamInfo(type)) :
     /\ getParamInfo(type)[i].present
     /\ ResolveFailure(getParamInfo(type)[i].type,
                       getParamInfo(type)[i].injector) # <<>>}

\* the first error raised inside create(type, ...), <<>> when there is none
FirstFailure(type) ==
  IF FailingParams(type) # {}
    THEN LET i == CHOOSE i \in FailingParams(type) :
                    \A j \in FailingParams(type) : i <= j
         IN ResolveFailure(getParamInfo(type)[i].type,
                           getParamInfo(type)[i].injector)
    ELSE IF ConstructorThrows(type) THEN <<"constructor failed", type>>
         ELSE <<>>

\* C9: whenever resolving an injected parameter fails (no handler,
\* exhausted chain, other injector, throwing handler) or the constructor
\* throws, create throws one error that names the type and ends with the
\* message of the original error, and returns no instance.
C9_CreateFailureWrapped ==
  (last.op = "create" /\ last.type \in Creatable) =>
    /\ FirstFailure(last.type) # <<>> =>
         /\ last.out = "error"
         /\ last.value = Undefined
         /\ last.err = <<"Could not create instance of", last.type, ":\n">>
                         \o FirstFailure(last.type)
    /\ last.out = "error" => FirstFailure(last.type) # <<>>

\* C9 witness: the handler of the first injected parameter throws.
C9_Witness ==
  /\ last.op = "create"
  /\ last.type = "ConstructorWithInjection"
  /\ last.err = <<"Could not create instance of", "ConstructorWithInjection",
                  ":\n", "handler failed", "hThrow">>

\* C9, the other failures: the constructor throws, the chain is exhausted,
\* the parameter belongs to another injector.
C9_WitnessConstructor ==
  /\ last.op = "create"
  /\ last.err = <<"Could not create instance of", "ThrowingClass", ":\n",
                  "constructor failed", "ThrowingClass">>

C9_WitnessExhausted ==
  /\ last.op = "create"
  /\ Len(last.err) = 6
  /\ last.err[6] = "since no compatible injection handler returned a value."

C9_WitnessForeign ==
  /\ last.op = "create"
  /\ last.type = "ForeignClient"
  /\ ChainOf("Base") # <<>>
  /\ last.err = <<"Could not create instance of", "ForeignClient", ":\n",
                  "@inject belongs to a different injector">>

\* C10: resolve with an injection request of another injector fails with
\* the cross-injector error and invokes no handler, whatever is registered
\* for the type.
C10_CrossInjector ==
  (/\ last.op = "resolve"
   /\ last.injection.present
   /\ last.injection.injector # This) =>
    /\ last.out = "error"
    /\ last.err = <<"@inject belongs to a different injector">>
    /\ last.calls = <<>>

\* C10 witness: the type has a handler that would have answered.
C10_Witness ==
  /\ last.op = "resolve"
  /\ last.type = "Base"
  /\ last.injection.injector = OtherInjector
  /\ ChainOf("Base") = <<"hObj">>
  /\ last.out = "error"

(***************************************************************************)
(* Vocabulary of the properties of the InjectionManager.                   *)
(***************************************************************************)
\* the entries the map holds for type T
EntriesOf(map, T) == {map[i] : i \in {j \in 1..Len(map) : map[j].type = T}}

Registered(map, T) == EntriesOf(map, T) # {}

UsedFlag(map, T) == \E e \in EntriesOf(map, T) : e.used

\* C11: removeHandler(T) on a used entry fails and leaves the registry as
\* it was; on an unused entry it removes the entry and nothing else; for a
\* type without entry resolve(T) fails with the no-handler error and
\* addHandler(T, h) succeeds.
C11_RemoveHandler ==
  [][/\ last'.op = "manager.removeHandler" =>
          IF UsedFlag(entries, last'.type)
            THEN /\ last'.out = "error"
                 /\ last'.err = <<"Can not remove InjectionHandler for type",
                                  last'.type, "because it was already used.">>
                 /\ entries' = entries
            ELSE /\ last'.out = "value"
                 /\ ~Registered(entries', last'.type)
                 /\ \A T \in ManagerTypes \ {last'.type} :
                      EntriesOf(entries', T) = EntriesOf(entries, T)
     /\ (last'.op = "manager.resolve" /\ ~Registered(entries, last'.type)) =>
          /\ last'.out = "error"
          /\ last'.err = <<"Can not inject value of type", last'.type,
                           "since no injection handler exists for this type.">>
     /\ (last'.op = "manager.addHandler" /\ ~Registered(entries, last'.type)) =>
          /\ last'.out = "value"
          /\ EntriesOf(entries', last'.type) =
               {[type |-> last'.type, handler |-> last'.handler, used |-> FALSE]}
    ]_vars

\* C11 witness: removeHandler has just failed on a used entry, which is
\* still there beside another entry.
C11_Witness ==
  /\ last.op = "manager.removeHandler"
  /\ last.out = "error"
  /\ UsedFlag(entries, last.type)
  /\ Len(entries) = 2

\* C11 witness of the other case: an unused entry was removed.
C11_WitnessRemoved ==
  /\ last.op = "manager.removeHandler"
  /\ last.out = "value"
  /\ last.type = "Base"
  /\ ~Registered(entries, "Base")
  /\ UsedFlag(entries, "Number")

\* C12: clearHandlers fails and removes nothing when some entry is used,
\* and removes every entry when none is.
C12_ClearAllOrNothing ==
  [][last'.op = "manager.clearHandlers" =>
       IF \E T \in ManagerTypes : UsedFlag(entries, T)
         THEN /\ last'.out = "error"
              /\ entries' = entries
         ELSE /\ last'.out = "value"
              /\ entries' = <<>>
    ]_vars

\* C12 witness: clearHandlers has failed with an unused entry registered
\* before the used one; both are still there.
C12_Witness ==
  /\ last.op = "manager.clearHandlers"
  /\ last.out = "error"
  /\ Len(entries) = 2
  /\ ~entries[1].used
  /\ entries[2].used

\* C13 as stated: reset() of the Injector after a successful resolve fails
\* and leaves the handlers registered.
C13_ResetRefusedAfterUse ==
  [][(usedSinceReset /\ last'.op = "reset") =>
       /\ last'.out = "error"
       /\ handlers' = handlers
    ]_vars

\* C14: a resolve through the entry of T sets its used flag, and a used
\* entry stays: no later call removes it, replaces its handler or clears
\* the flag.
C14_UsedIsPermanent ==
  [][/\ (last'.op = "manager.resolve" /\ Registered(entries, last'.type)) =>
          UsedFlag(entries', last'.type)
     /\ \A T \in ManagerTypes :
          UsedFlag(entries, T) =>
            /\ UsedFlag(entries', T)
            /\ getHandler(entries', T) = getHandler(entries, T)
            /\ getHandler(entries', T) # "null"
    ]_vars

\* C14 witness: addHandler with another handler has failed on a used entry.
C14_Witness ==
  /\ last.op = "manager.addHandler"
  /\ last.out = "error"
  /\ last.type = "Base"
  /\ last.handler = "hThrow"
  /\ UsedFlag(entries, "Base")
  /\ getHandler(entries, "Base") = "hObj"

\* C15 as stated: the used flag is set by the first resolve that returns a
\* value and not earlier; an entry whose handler has not returned yet
\* (never resolved, or only thrown) is not used and can be removed by
\* removeHandler and clearHandlers.
C15_UsedOnlyAfterSuccess ==
  [][/\ \A T \in ManagerTypes : UsedFlag(entries', T) => T \in answered'
     /\ (/\ last'.op = "manager.removeHandler"
         /\ Registered(entries, last'.type)
         /\ last'.type \notin answered) =>
          (last'.out = "value" /\ ~Registered(entries', last'.type))
     /\ (last'.op = "manager.clearHandlers" /\ answered = {}) =>
          (last'.out = "value" /\ entries' = <<>>)
    ]_vars

\* C16: a type has at most one entry; addHandler(T, h2) on a registered T
\* fails and leaves the registry, handler and used flag included, as it was.
C16_OneHandlerPerType ==
  [][/\ \A T \in ManagerTypes : Cardinality(EntriesOf(entries', T)) <= 1
     /\ \A T \in ManagerTypes :
          Cardinality({i \in 1..Len(entries') : entries'[i].type = T}) <= 1
     /\ (last'.op = "manager.addHandler" /\ Registered(entries, last'.type)) =>
          /\ last'.out = "error"
          /\ last'.err = <<"InjectionManager already has a handler for", last'.type>>
          /\ entries' = entries
    ]_vars

\* C16 witness: the second addHandler for Number has failed, the first
\* handler is still the one registered and still unused.
C16_Witness ==
  /\ last.op = "manager.addHandler"
  /\ last.out = "error"
  /\ last.type = "Number"
  /\ last.handler = "hNull"
  /\ entries = <<[type |-> "Number", handler |-> "hZero", used |-> FALSE]>>

\* the injected properties of all instances
Slots == Owners \X Props

\* the handlers one resolution of T invokes: the chain up to its winner
TriedBy(T) ==
  LET chain == ChainOf(T)
  IN SubSeq(chain, 1, IF Winner(chain) = 0 THEN Len(chain) ELSE Winner(chain))

\* C17: the first read of an injected property on an instance makes one
\* resolution (each handler of the chain up to the answering one invoked
\* once) and caches its value on that instance only; every later read on the
\* instance returns the cached value, invokes no handler and constructs
\* nothing; the property of the non-shared injectable class read on the two
\* clients gives two distinct objects.
C17_LazyCachedPerInstance ==
  [][last'.op = "read" =>
       LET instance == last'.injection.instance
           name == last'.injection.name
       IN /\ \A s \in Slots \ {<<instance, name>>} :
               propCache'[s[1]][s[2]] = propCache[s[1]][s[2]]
          /\ IF propCache[instance][name].cached
               THEN /\ last'.out = "value"
                    /\ last'.value = propCache[instance][name].value
                    /\ last'.calls = <<>>
                    /\ propCache' = propCache
                    /\ heap' = heap
               ELSE /\ Invoked' = TriedBy(PropType(name))
                    /\ last'.out = "value" =>
                         /\ propCache'[instance][name].cached
                         /\ propCache'[instance][name].value = last'.value
                    /\ last'.out = "error" => ~propCache'[instance][name].cached
          /\ \A a, b \in Clients :
               /\ a # b
               /\ propCache'[a]["autoInjectableClass"].cached
               /\ propCache'[b]["autoInjectableClass"].cached
               => propCache'[a]["autoInjectableClass"].value
                    # propCache'[b]["autoInjectableClass"].value
    ]_vars

\* C17 witness: autoInjectableClass has been read on both clients and is
\* read again on the first: the value comes from the cache.
C17_Witness ==
  /\ last.op = "read"
  /\ last.injection.instance = "instance"
  /\ last.injection.name = "autoInjectableClass"
  /\ last.calls = <<>>
  /\ last.value = propCache["instance"]["autoInjectableClass"].value
  /\ propCache["instance2"]["autoInjectableClass"].cached

\* the cached value was produced by the default handler of a class declared
\* shared, or of one not declared shared
BySharedHandler(e) ==
  e.cached /\ e.by \in DefaultHandlers /\ InjectableConfig(HandlerType(e.by)).shared

ByFreshHandler(e) ==
  e.cached /\ e.by \in DefaultHandlers /\ ~InjectableConfig(HandlerType(e.by)).shared

\* the shared class was made injectable before any other handler was
\* registered, so before any property could be resolved
SharedRegisteredFirst ==
  /\ regLog # <<>>
  /\ regLog[1] = [type |-> "Base", handler |-> SharedHandlerOf("Base")]

\* C18 as stated: with the shared class injectable from the start, the
\* injected property of its type is the same object on any two instances.
C18_SingletonLaw ==
  SharedRegisteredFirst =>
    \A a, b \in Owners :
      propCache[a]["singleton"].cached /\ propCache[b]["singleton"].cached
        => propCache[a]["singleton"].value = propCache[b]["singleton"].value

\* C18: the resolutions answered by the default handler of a shared class
\* all yield the same object, on clients and on the objects injected into
\* them; two resolutions answered by the default handler of a class that is
\* not shared yield two different objects.
C18_SingletonOfAnsweringHandler ==
  \A s, t \in Slots :
    LET x == propCache[s[1]][s[2]]
        y == propCache[t[1]][t[2]]
    IN /\ BySharedHandler(x) /\ BySharedHandler(y)
            /\ HandlerType(x.by) = HandlerType(y.by)
            => x.value = y.value
       /\ ByFreshHandler(x) /\ ByFreshHandler(y) /\ s # t
            => x.value # y.value

\* C18 witness: singleton has been read on a client and is read on an object
\* injected into a client; both are the instance of the shared handler.
C18_Witness ==
  /\ last.op = "read"
  /\ last.injection.name = "singleton"
  /\ last.injection.instance \notin Clients
  /\ BySharedHandler(propCache[last.injection.instance]["singleton"])
  /\ BySharedHandler(propCache["instance"]["singleton"])
  /\ last.value = propCache["instance"]["singleton"].value
  /\ \E c \in Clients :
       /\ ByFreshHandler(propCache[c]["autoInjectableClass"])
       /\ propCache[c]["autoInjectableClass"].value.val = last.injection.instance

\* neither site description, only one or both are populated in a request
ParameterSite(inj) == inj.type # NoType /\ inj.index # NoIndex

PropertySite(inj) == inj.instance # "undefined" /\ inj.name # "undefined"

NoParameterSite(inj) == inj.type = NoType /\ inj.index = NoIndex

NoPropertySite(inj) == inj.instance = "undefined" /\ inj.name = "undefined"

\* C19 as stated: every request a handler receives has type and index
\* populated and instance and name undefined, or the other way round.
C19_ExactlyOneSite ==
  \A i \in 1..Len(last.calls) :
    LET inj == last.calls[i].injection
    IN \/ ParameterSite(inj) /\ NoPropertySite(inj)
       \/ PropertySite(inj) /\ NoParameterSite(inj)

\* C19 amended: a request built by create has type = the class created and
\* index = the position of an injected parameter, with instance and name
\* undefined; a request given to resolve reaches the handlers as it is (the
\* property site: instance and name, no type and index); resolve without a
\* request hands the handlers {injector: this}, with no site at all.
C19_SiteOfRequest ==
  \A i \in 1..Len(last.calls) :
    LET inj == last.calls[i].injection
    IN /\ last.op = "create" =>
            /\ inj.type = last.type
            /\ inj.index >= 0
            /\ ParamAt(getParamInfo(last.type), inj.index + 1).present
            /\ \E k \in 1..Len(ChainOf(ParamAt(getParamInfo(last.type),
                                               inj.index + 1).type)) :
                 ChainOf(ParamAt(getParamInfo(last.type), inj.index + 1).type)[k]
                   = last.calls[i].handler
            /\ NoPropertySite(inj)
       /\ (last.op = "resolve" /\ last.injection.present) =>
            /\ inj = last.injection
            /\ PropertySite(inj) /\ NoParameterSite(inj)
       /\ (last.op = "resolve" /\ ~last.injection.present) =>
            /\ NoParameterSite(inj) /\ NoPropertySite(inj)
            /\ inj.injector = This

\* C19 witness: create resolved the three injected parameters, at the
\* positions 1, 2 and 3.
C19_Witness ==
  /\ last.op = "create"
  /\ last.type = "ConstructorWithInjection"
  /\ Len(last.calls) = 3
  /\ [i \in 1..3 |-> last.calls[i].injection.index] = <<1, 2, 3>>

\* C19 witness of the case without site: resolve(Base) without request.
C19_WitnessDefault ==
  /\ last.op = "resolve"
  /\ ~last.injection.present
  /\ Len(last.calls) = 1
  /\ last.calls[1].injection = DefaultInjection

\* C20: when the first handler of the chain that does not decline throws,
\* resolve fails with that handler's error, no later handler is invoked and
\* the registry is as before; inside create the failure ends the call before
\* the argument list is complete, so no instance is constructed.
C20_ThrowingHandlerAborts ==
  /\ ResolvedHere =>
       LET chain == ChainOf(last.type)
           k == Winner(chain)
       IN (k > 0 /\ HandlerThrows(chain[k])) =>
            /\ last.out = "error"
            /\ last.err = <<"handler failed", chain[k]>>
            /\ Invoked = SubSeq(chain, 1, k)
            /\ handlers = last.before
  /\ (/\ last.op = "create"
      /\ last.type \in Creatable
      /\ Len(FirstFailure(last.type)) = 2
      /\ FirstFailure(last.type)[1] = "handler failed") =>
       /\ last.out = "error"
       /\ last.value = Undefined
       /\ last.cause = FirstFailure(last.type)
       /\ Invoked # <<>>
       /\ HandlerThrows(Invoked[Len(Invoked)])
       /\ Len(last.finalArgs) < Len(getParamInfo(last.type))
       /\ handlers = last.before

\* C20 witness: the chain of Base is hNull, hThrow, hObj; hObj, which would
\* have answered, was not invoked.
C20_Witness ==
  /\ ResolvedHere
  /\ last.type = "Base"
  /\ ChainOf("Base") = <<"hNull", "hThrow", "hObj">>
  /\ Invoked = <<"hNull", "hThrow">>
  /\ last.out = "error"

\* C20 witness inside create: the second service parameter is never tried.
C20_WitnessCreate ==
  /\ last.op = "create"
  /\ last.type = "ConstructorWithInjection"
  /\ ChainOf("Base") = <<"hThrow", "hObj">>
  /\ Invoked = <<"hThrow">>
  /\ last.finalArgs = <<Undefined>>

\* create has called the constructor of the class
ConstructorCalled ==
  /\ last.op = "create"
  /\ last.type # NoType
  /\ last.out = "value" \/ last.cause = <<"constructor failed", last.type>>

\* C21: the constructor is called with as many arguments as the largest of
\* the declared arity, the number of explicit arguments and the length of
\* the injection metadata; a position without metadata carries the explicit
\* argument given there, also beyond the arity, and undefined when none was
\* given; a position with metadata carries the resolved value, also beyond
\* the arity and the explicit arguments.
C21_ArgumentCount ==
  ConstructorCalled =>
    LET n == Len(last.finalArgs)
        arity == Arity(last.type)
        given == Len(last.args)
        info == getParamInfo(last.type)
    IN /\ n >= arity /\ n >= given /\ n >= Len(info)
       /\ n \in {arity, given, Len(info)}
       /\ \A i \in 1..n :
            IF i <= Len(info) /\ info[i].present
              THEN last.finalArgs[i] = Injected(info[i].type)
              ELSE IF i <= given
                THEN last.finalArgs[i] = last.args[i]
                ELSE last.finalArgs[i] = Undefined

\* C21 witness: the subclass declares no constructor (arity 0) and is created
\* without explicit arguments: four arguments are passed, the first
\* undefined, the others resolved.
C21_Witness ==
  /\ last.op = "create"
  /\ last.type = "ExtendedConstrutorWithInjection"
  /\ last.args = <<>>
  /\ last.out = "value"
  /\ Len(last.finalArgs) = 4
  /\ last.finalArgs[1] = Undefined
  /\ last.finalArgs[4] = Obj("Base", "service")

\* C21 witness: two explicit arguments for a constructor of arity 1.
C21_WitnessExplicit ==
  /\ last.op = "create"
  /\ last.type = "Base"
  /\ last.args = <<Undefined, Prim("String", "foo3")>>
  /\ last.out = "value"
  /\ last.finalArgs = <<Undefined, Prim("String", "foo3")>>

\* the positions of the class whose metadata was recorded for an injector
\* other than this one
ForeignParams(type) ==
  {i \in 1..Len(getParamInfo(type)) :
     getParamInfo(type)[i].present /\ getParamInfo(type)[i].injector # "injector"}

\* C23: every call of a handler made by this injector, through resolve with
\* or without a request or through create, carries a request whose injector
\* is this injector and this injector as second argument; create for a class
\* with a parameter recorded for another injector fails, and no handler is
\* invoked for that parameter or any after it.
C23_InjectorIsolation ==
  /\ \A i \in 1..Len(last.calls) :
       /\ last.calls[i].injection.present
       /\ last.calls[i].injection.injector = "injector"
       /\ last.calls[i].injector = "injector"
  /\ (last.op = "create" /\ ForeignParams(last.type) # {}) =>
       /\ last.out = "error"
       /\ \A i \in 1..Len(last.calls), p \in ForeignParams(last.type) :
            last.calls[i].injection.index < p - 1

\* C23 witness: a handler for the parameter's type is registered, the
\* parameter was recorded for the other injector; create fails and has
\* invoked nothing.
C23_Witness ==
  /\ last.op = "create"
  /\ last.type = "ForeignClient"
  /\ ChainOf("Base") = <<"hObj">>
  /\ last.out = "error"
  /\ last.calls = <<>>

\* C23 witness: resolve without a request hands the handler the request
\* {injector: this}.
C23_WitnessDefault ==
  /\ last.op = "resolve"
  /\ ~last.injection.present
  /\ Len(last.calls) = 2
  /\ last.calls[2].injection.injector = "injector"

\* the addHandler calls since the last reset made for Base or for Derived
BaseOrDerived == {p \in 1..Len(regLog) : regLog[p].type \in {"Base", "Derived"}}

\* the k-th most recent of them
Recent(k) == CHOOSE p \in BaseOrDerived : Cardinality({q \in BaseOrDerived : q >= p}) = k

\* C24: resolve(Base) tries the handlers registered for Base and for Derived
\* in the reverse order of their registration, whichever of the two types
\* each was registered for; when the most recent one that answers was
\* registered for Derived, its value is returned and no handler registered
\* earlier, for Base or for Derived, is invoked.
C24_OrderedByRegistrationTime ==
  (ResolvedHere /\ last.type = "Base") =>
    /\ Len(last.calls) <= Cardinality(BaseOrDerived)
    /\ \A k \in 1..Len(last.calls) : last.calls[k].handler = regLog[Recent(k)].handler
    /\ \A k \in 1..Cardinality(BaseOrDerived) :
         (/\ regLog[Recent(k)].type = "Derived"
          /\ ~Declines(regLog[Recent(k)].handler)
          /\ ~HandlerThrows(regLog[Recent(k)].handler)
          /\ \A j \in 1..(k - 1) :
               Declines(regLog[Recent(j)].handler)) =>
           /\ last.out = "value"
           /\ last.value = HandlerValue(regLog[Recent(k)].handler)
           /\ Len(last.calls) = k

\* C24 witness: hObj was registered for Base, then hDerived for Derived;
\* resolve(Base) returns the value of hDerived and does not invoke hObj.
C24_Witness ==
  /\ last.op = "resolve"
  /\ last.type = "Base"
  /\ regLog = <<[type |-> "Base", handler |-> "hObj"],
                [type |-> "Derived", handler |-> "hDerived"]>>
  /\ last.value = Obj("Derived", "derived")
  /\ Invoked = <<"hDerived">>

\* C25: when reset returns the list of every type is empty; resolve(T)
\* then fails with the no-handler error for every T until addHandler is
\* called again, and the only handlers resolve ever invokes are those
\* registered since the last reset for a type that serves T.
C25_ResetEmptiesEveryList ==
  /\ last.op = "reset" => \A t \in Types : handlers[t] = <<>>
  /\ ResolvedHere =>
       /\ regLog = <<>> =>
            /\ last.out = "error"
            /\ last.err = <<"Could not inject value of type", last.type,
                            "since no compatible injection handler exists for this type.">>
       /\ \A i \in 1..Len(last.calls) :
            \E p \in 1..Len(regLog) :
              /\ regLog[p].handler = last.calls[i].handler
              /\ Serves(regLog[p].type, last.type)

\* C25 witness: Base had received a handler through a registration for
\* Derived; reset has emptied both lists.
C25_Witness ==
  /\ last.op = "reset"
  /\ last.before["Base"] = <<"hDerived">>
  /\ last.before["Derived"] = <<"hDerived">>
  /\ handlers["Base"] = <<>>
  /\ handlers["Derived"] = <<>>
  /\ regLog = <<>>

\* the registrations of a default handler for the class
DefaultRegistrations(type) ==
  {p \in 1..Len(regLog) :
     regLog[p].type = type /\ regLog[p].handler \in DefaultHandlers}

\* C22: @shared applied to a class after @injectable fails with the error
\* '@shared must be defined before @injectable' and leaves the class
\* registered as it was, with a handler that is not shared unless @shared
\* had also been applied before @injectable; a class is registered by
\* @injectable once, with a shared handler exactly when @shared was applied
\* before, and all values a shared handler produces are the same object.
C22_SharedBeforeInjectable ==
  /\ \A type \in InjectableTypes :
       /\ Cardinality(DefaultRegistrations(type)) <= 1
       /\ (DefaultRegistrations(type) # {}) = declared[type].injectable
       /\ \A p \in DefaultRegistrations(type) :
            regLog[p].handler =
              IF declared[type].shared THEN SharedHandlerOf(type)
                                       ELSE FreshHandlerOf(type)
  /\ last.op = "shared" =>
       IF declared[last.type].injectable
         THEN /\ last.out = "error"
              /\ last.err = <<"@shared must be defined before @injectable">>
              /\ declared[last.type].shared =
                   (regLog[CHOOSE p \in DefaultRegistrations(last.type) : TRUE].handler
                      = SharedHandlerOf(last.type))
         ELSE /\ last.out = "value"
              /\ declared[last.type].shared
  /\ \A s, t \in Slots :
       (/\ propCache[s[1]][s[2]].cached
        /\ propCache[t[1]][t[2]].cached
        /\ propCache[s[1]][s[2]].by = propCache[t[1]][t[2]].by
        /\ HandlerShared(propCache[s[1]][s[2]].by))
       => propCache[s[1]][s[2]].value = propCache[t[1]][t[2]].value

\* C22 witness: @shared @injectable class: @injectable was applied first,
\* @shared fails and the class stays registered with a handler that is not
\* shared.
C22_Witness ==
  /\ last.op = "shared"
  /\ last.type = "Base"
  /\ last.out = "error"
  /\ regLog = <<[type |-> "Base", handler |-> "defaultBase"]>>

\* C22 witness: @injectable @shared class: the class is registered with the
\* shared handler, and two instances have read the same singleton.
C22_WitnessOrdered ==
  /\ declared["Base"] = [shared |-> TRUE, injectable |-> TRUE]
  /\ regLog = <<[type |-> "Base", handler |-> "sharedBase"]>>
  /\ propCache["instance"]["singleton"].cached
  /\ propCache["instance2"]["singleton"].cached
  /\ last.op = "read"

\* the value is the one the store holds: the same primitive or the same
\* object, NaN being different from itself
Identical(current, value) == current = value /\ value # Prim("Number", "NaN")

\* C26: an assignment of a value identical to the stored one does nothing:
\* no type check, no event, the store as it was; an assignment of another
\* value that passes the check stores it and then triggers one
\* '<name>Changed' event carrying it; the getter returns the stored value,
\* which is the value of the last change event.
C26_SetterStoresAndNotifies ==
  [][/\ last'.op = "set" =>
          IF Identical(propertyStore, last'.args[1])
            THEN /\ last'.out = "value"
                 /\ last'.calls = <<>>
                 /\ propertyStore' = propertyStore
                 /\ triggered' = triggered
            ELSE /\ Len(last'.calls) = 1
                 /\ last'.out = "value" =>
                      /\ propertyStore' = last'.args[1]
                      /\ triggered' =
                           Append(triggered,
                                  [type |-> <<"myProp", "Changed">>,
                                   value |-> last'.args[1],
                                   stored |-> last'.args[1]])
     /\ last'.op = "get" =>
          /\ last'.value = propertyStore
          /\ last'.value = IF triggered = <<>> THEN Undefined
                                               ELSE triggered[Len(triggered)].value
    ]_vars

\* C26 witness: 0 then 23 have been assigned, and 23 is assigned again:
\* two events, no type check for the third assignment.
C26_Witness ==
  /\ last.op = "set"
  /\ last.args = <<Prim("Number", "23")>>
  /\ last.calls = <<>>
  /\ propertyStore = Prim("Number", "23")
  /\ Len(triggered) = 2
  /\ triggered[1].value = Prim("Number", "0")
  /\ triggered[2].value = Prim("Number", "23")

\* C26 witness: the getter after two assignments.
C26_WitnessGet ==
  /\ last.op = "get"
  /\ last.value = Prim("Number", "23")
  /\ Len(triggered) = 2

\* C27: an assignment whose type check fails throws an error that names
\* the property, leaves the stored value as it was and triggers no event;
\* every error of an assignment is of this kind.
C27_FailedCheckChangesNothing ==
  [][(last'.op = "set" /\ last'.out = "error") =>
       /\ Len(last'.err) >= 3
       /\ SubSeq(last'.err, 1, 3) = <<"Failed to set property", "myProp", ":">>
       /\ Len(last'.calls) = 1
       /\ propertyStore' = propertyStore
       /\ triggered' = triggered
    ]_vars

\* C27 witness: the property holds 0 and a string is assigned.
C27_Witness ==
  /\ last.op = "set"
  /\ last.args = <<Prim("String", "foo3")>>
  /\ last.out = "error"
  /\ propertyStore = Prim("Number", "0")
  /\ Len(triggered) = 1

\* entry k of the trace was written while a refresh was in progress
DuringRefresh(k) ==
  \E i \in 1..(k - 1) :
    /\ trace[i].what = "_refresh"
    /\ \A j \in i..(k - 1) : trace[j].what # "_refresh returns"

C28_WitnessOutside ==
  /\ last.op = "selectionIndex"
  /\ Len(trace) >= 2
  /\ trace[1] = [what |-> "selectionIndexChanged", index |-> 0]
  /\ trace[2] = [what |-> "onSelectionChanged", index |-> 0]

\* the running call has called _computeTexts
Computed == \E k \in 1..Len(trace) : trace[k].what = "_computeTexts"

\* a textSource binding is set and there is a list
BindingAndItems == picker._textSource.kind = "binding" /\ picker.items.id # "null"

\* the subscribe call for the item at the index threw in the running call
SubscribeThrew(index) ==
  \E k \in 1..Len(trace) : trace[k] = [what |-> "subscribe throws", index |-> index]

\* every unsubscribe of the running call came before every subscribe
UnsubscribedFirst ==
  \A i, j \in 1..Len(trace) :
    (trace[i].what = "subscribe" /\ trace[j].what = "unsubscribe") => j < i

\* C29 as stated: after _computeTexts there is exactly one subscription per
\* item of the list when a binding is set, and none otherwise; the earlier
\* ones were unsubscribed once, before the new ones were made.
C29_OneSubscriptionPerItem ==
  Computed =>
    /\ UnsubscribedFirst
    /\ \A index \in DOMAIN subscriptions :
         subscriptions[index] =
           IF BindingAndItems /\ index <= Len(picker.items.items)
             THEN [item |-> picker.items.items[index], live |-> 1]
             ELSE NoSubscription

\* C29: after _computeTexts there is exactly one subscription per item of
\* the list for which subscribe returned, when a binding is set, and none
\* for an item for which subscribe threw and none otherwise; the earlier
\* ones were unsubscribed once, before the new ones were made.
C29_OneSubscriptionPerSubscribedItem ==
  Computed =>
    /\ UnsubscribedFirst
    /\ \A index \in DOMAIN subscriptions :
         subscriptions[index] =
           IF /\ BindingAndItems
              /\ index <= Len(picker.items.items)
              /\ ~SubscribeThrew(index)
             THEN [item |-> picker.items.items[index], live |-> 1]
             ELSE NoSubscription

\* C29 witness: two items were subscribed to; _computeTexts runs again,
\* unsubscribes both, and of the two subscribe calls the first throws.
C29_Witness ==
  /\ Computed
  /\ BindingAndItems
  /\ Len(picker.items.items) = 2
  /\ SubscribeThrew(1)
  /\ subscriptions[2].live = 1
  /\ \E i, j \in 1..Len(trace) :
       /\ trace[i] = [what |-> "unsubscribe", index |-> 1]
       /\ trace[j] = [what |-> "unsubscribe", index |-> 2]

====
